---- MODULE Spec2Model ----
(***************************************************************************)
(* State-machine model of the self-learning core of SelfCoding:           *)
(*   backend/self_learning/memory_system.py      (HierarchicalMemory)     *)
(*   backend/self_learning/reflexion.py          (ReflexionFramework)     *)
(*   backend/self_learning/curriculum_learning.py                         *)
(*   backend/self_learning/meta_learning_engine.py                        *)
(*   backend/self_learning/self_improvement_engine.py                     *)
(*                                                                         *)
(* Number representation.  Python floats are modelled in fixed point:     *)
(*   importance        in hundredths        (0.8  -> 80)                  *)
(*   retention_strength in ten-thousandths  (1.0  -> 10000)               *)
(*   quality scores    as integers 0..100                                 *)
(*   the curriculum EMA as an exact rational num/den (den a power of 10)  *)
(*   meta-learner rates and confidences in ten-thousandths                *)
(***************************************************************************)
EXTENDS Integers, Sequences, FiniteSets, TLC

VARIABLES
  \* ---- HierarchicalMemory (memory_system.py) ----
  short_term,           \* deque(maxlen=10) of MemoryEntry
  mid_term,             \* deque(maxlen=50) of MemoryEntry
  long_term,            \* dict of five lists
  reflective,           \* list of MemoryEntry
  performance_history,  \* list of performance records
  now,                  \* datetime.now(), in whole hours
  next_id,              \* object identity of the next MemoryEntry created
  last_op,              \* the last operation: its name, arguments, result, exception
  steps,                \* operations performed since the initial state
  \* ---- CurriculumLearningSystem (curriculum_learning.py) ----
  mastery_levels,       \* dict task_id -> MasteryLevel: the values
  mastery_keys,         \* ... and its keys in insertion order
  current_focus_areas,  \* list of TaskCategory
  attempt_log,          \* per task id, the (success, quality_score) pairs recorded
  \* ---- ReflexionFramework.reflexion_loop (reflexion.py) ----
  pc,                   \* where the coroutine is suspended: the call it awaits
  loop,                 \* the locals of reflexion_loop
  calls,                \* the external calls issued by the current run, in order
  outcome,              \* the current or last run: how it ended, what it returned
  parked,               \* a second request's coroutine while the event loop runs the other
  \* ---- SelfImprovementEngine (self_improvement_engine.py) ----
  improvement_cycle_count,
  \* ---- MetaLearningEngine (meta_learning_engine.py) ----
  learning_experiences,   \* deque(maxlen=1000) of LearningExperience
  strategy_effectiveness, \* dict (strategy, domain) -> StrategyEffectiveness
  adaptive_parameters,    \* exploration_rate, transfer_threshold, ...
  domain_similarities,    \* dict domain -> dict domain -> similarity
  \* ---- ManagerAgent (agents/manager_agent.py) ----
  manager,                \* _orchestrate_generation: where it is suspended, its locals
  background,             \* the tasks made by asyncio.create_task, in order
  \* ---- AdvancedReflexionFramework (advanced_reflexion.py) ----
  advanced                \* its fields, and where deep_reflection_cycle is suspended

mem_vars_but_now == <<short_term, mid_term, long_term, reflective,
                      performance_history, next_id>>

mem_vars == <<short_term, mid_term, long_term, reflective, performance_history,
              now, next_id>>

cur_vars == <<mastery_levels, mastery_keys, current_focus_areas, attempt_log>>

loop_vars == <<pc, loop, calls, outcome, parked>>

meta_vars == <<learning_experiences, strategy_effectiveness, adaptive_parameters,
               domain_similarities>>

mgr_vars == <<manager, background>>

vars == <<short_term, mid_term, long_term, reflective, performance_history,
          now, next_id, last_op, steps,
          mastery_levels, mastery_keys, current_focus_areas, attempt_log,
          pc, loop, calls, outcome, parked, improvement_cycle_count,
          learning_experiences, strategy_effectiveness, adaptive_parameters,
          domain_similarities, manager, background, advanced>>

\* what the operations of one component leave alone
outside_mem == <<cur_vars, loop_vars, improvement_cycle_count, meta_vars, mgr_vars, advanced>>
outside_cur == <<mem_vars, loop_vars, improvement_cycle_count, meta_vars, mgr_vars, advanced>>
outside_loop == <<cur_vars, meta_vars, mgr_vars, parked, advanced>>
outside_meta == <<mem_vars, cur_vars, loop_vars, improvement_cycle_count, mgr_vars, advanced>>
outside_mgr == <<mem_vars, cur_vars, loop_vars, improvement_cycle_count, meta_vars, advanced>>

-----------------------------------------------------------------------------
(* Bounds of the model *)
MaxOps == 2          \* memory operations explored after the initial state
MaxClock == 40       \* the clock stops advancing here
MaxAttempts == 2     \* record_task_attempt calls explored after the initial state
MaxRuns == 1         \* reflexion_loop runs or controller cycles started
MaxAnswers == 6      \* external calls issued by two requests sharing the engine
MaxOutcomes == 2     \* record_learning_outcome calls explored after the initial state
MaxRequests == 2     \* generate_and_review requests handled
MaxReflections == 2  \* deep_reflection_cycle calls explored after the initial state
MaxEvictions == 1    \* record_learning_outcome calls explored on a full experience log

(* Program constants *)
ShortTermMaxLen == 10
MidTermMaxLen == 50
ConsolidateThreshold == 80       \* importance > 0.8
TrajectoryMinLen == 5            \* len(performance_history) >= 5
TrendImportance == 95            \* importance=0.95
RetOne == 10000                \* retention_strength = 1.0
AccessBoost == 1000            \* + 0.1
RetEvictBelow == 1000          \* retention < 0.1
ImpEvictBelow == 50              \* importance < 0.5

\* Python None is the empty option <<>>; a present value v is <<v>>
None == <<>>
NoError == "none"
Some(v) == <<v>>
The(o) == o[1]

-----------------------------------------------------------------------------
(* Sequence helpers *)
Last(s) == s[Len(s)]

RemoveAt(s, i) == SubSeq(s, 1, i - 1) \o SubSeq(s, i + 1, Len(s))

LastN(s, n) == IF Len(s) <= n THEN s ELSE SubSeq(s, Len(s) - n + 1, Len(s))

FirstN(s, n) == IF Len(s) <= n THEN s ELSE SubSeq(s, 1, n)

RECURSIVE SumSeq(_)
SumSeq(s) == IF s = <<>> THEN 0 ELSE s[1] + SumSeq(Tail(s))

RECURSIVE SelectIdx(_, _, _)
\* the indices i of s, ascending, with Test(s[i])
SelectIdx(s, Test(_), i) ==
  IF i > Len(s) THEN <<>>
  ELSE (IF Test(s[i]) THEN <<i>> ELSE <<>>) \o SelectIdx(s, Test, i + 1)

(* collections.deque(maxlen=n).append: drops the leftmost item when full *)
DequeAppendDropsNewest(d, x, maxlen) ==
  IF Len(d) >= maxlen THEN d ELSE Append(d, x)

DequeAppendUnbounded(d, x, maxlen) == Append(d, x)

DequeAppend(d, x, maxlen) ==
  IF maxlen = 0 THEN d
  ELSE IF Len(d) >= maxlen THEN Append(Tail(d), x)
  ELSE Append(d, x)

-----------------------------------------------------------------------------
(* Text.  A text is a sequence of lower-case tokens; `word in content_str`
   is Python substring search, which also finds a word inside a longer token *)
ProperSubstrings ==
  { <<"ui", "build">>, <<"app", "application">>, <<"a", "task">>, <<"a", "create">>,
    <<"a", "initial_generation">>, <<"a", "evaluation">>, <<"a", "chart">>,
    <<"a", "app">>, <<"a", "application">> }

SubstringOf(w, tok) == w = tok \/ <<w, tok>> \in ProperSubstrings

Contains(text, w) == \E i \in 1..Len(text) : SubstringOf(w, text[i])

-----------------------------------------------------------------------------
(* math.exp(-k/1000) in ten-thousandths, k >= 0: the product of the powers of
   e^-1, e^-0.1, e^-0.01 and e^-0.001 for the decimal digits of k *)
ExpNeg1 == 3679
ExpNeg01 == 9048
ExpNeg001 == 9900
ExpNeg0001 == 9990

RECURSIVE FixPow(_, _)
FixPow(b, n) == IF n = 0 THEN RetOne ELSE (b * FixPow(b, n - 1)) \div RetOne

ExpNegMilli(k) ==
  LET a == FixPow(ExpNeg1, k \div 1000)
      b == FixPow(ExpNeg01, (k % 1000) \div 100)
      c == FixPow(ExpNeg001, (k % 100) \div 10)
      d == FixPow(ExpNeg0001, k % 10)
  IN  (((((a * b) \div RetOne) * c) \div RetOne) * d) \div RetOne

-----------------------------------------------------------------------------
(* MemoryEntry *)
NewEntryAtImportance(id, content, memory_type, importance, t) ==
  [ id |-> id, content |-> content, memory_type |-> memory_type,
    importance |-> importance, timestamp |-> t, access_count |-> 0,
    last_accessed |-> t, retention_strength |-> 100 * importance ]

NewEntry(id, content, memory_type, importance, t) ==
  [ id |-> id, content |-> content, memory_type |-> memory_type,
    importance |-> importance, timestamp |-> t, access_count |-> 0,
    last_accessed |-> t, retention_strength |-> RetOne ]

MinOf(a, b) == IF a <= b THEN a ELSE b
MaxOf(a, b) == IF a >= b THEN a ELSE b

AccessUncapped(e, t) ==
  [e EXCEPT !.access_count = @ + 1, !.last_accessed = t,
            !.retention_strength = @ + AccessBoost]

Access(e, t) ==
  [e EXCEPT !.access_count = @ + 1, !.last_accessed = t,
            !.retention_strength = MinOf(RetOne, @ + AccessBoost)]

\* decay_rate = 0.1 * (1 - importance); hours * decay_rate = k / 1000
DecayFlat(e, hours_passed) ==
  [e EXCEPT !.retention_strength = (@ * ExpNeg01) \div RetOne]

Decay(e, hours_passed) ==
  [e EXCEPT !.retention_strength =
      (@ * ExpNegMilli(hours_passed * (100 - e.importance))) \div RetOne]

-----------------------------------------------------------------------------
(* HierarchicalMemory *)
EmptyLongTerm ==
  [ successful_patterns |-> <<>>, failed_patterns |-> <<>>, learned_rules |-> <<>>,
    procedural_knowledge |-> <<>>, performance_insights |-> <<>> ]

\* _consolidate_to_long_term: one derived record, filed by content.get('success')
ConsolidateAlwaysSuccess(lt, entry) ==
  [lt EXCEPT !.successful_patterns = Append(@,
      [ description |-> entry.content.description, timestamp |-> entry.timestamp,
        access_count |-> 0 ])]

ConsolidateToLongTerm(lt, entry) ==
  IF entry.content.success = TRUE
  THEN [lt EXCEPT !.successful_patterns = Append(@,
          [ description |-> entry.content.description, timestamp |-> entry.timestamp,
            access_count |-> 0 ])]
  ELSE [lt EXCEPT !.failed_patterns = Append(@,
          [ description |-> entry.content.description, timestamp |-> entry.timestamp ])]

\* add_episode's test `importance > 0.8`
ConsolidatesAtOrAbove(importance) == importance >= ConsolidateThreshold

Consolidates(importance) == importance > ConsolidateThreshold

\* _analyze_performance_trajectory over a trajectory h: None or the insight
HasQuality(r) == r.quality_score # None /\ The(r.quality_score) # 0

AnalyzePerformanceTrajectory(h) ==
  LET recent == LastN(h, 10)
      idx    == SelectIdx(recent, HasQuality, 1)
      scores == [i \in 1..Len(idx) |-> The(recent[idx[i]].quality_score)]
  IN  IF recent = <<>> \/ Len(scores) < 3 THEN None
      ELSE LET sum_recent == SumSeq(LastN(scores, 3))
               sum_older  == SumSeq(FirstN(scores, 3))
               succ       == Cardinality({i \in 1..Len(recent) : recent[i].success = TRUE})
           IN  Some([ trend |-> IF sum_recent > sum_older THEN "improving" ELSE "declining",
                      delta3 |-> sum_recent - sum_older,
                      successes |-> succ, window |-> Len(recent) ])

\* the content record of the reflection add_performance_record stores
TrendContent(insights) ==
  [ words |-> <<"performance_analysis", The(insights).trend>>, description |-> None,
    success |-> FALSE, insights |-> insights ]

Content(words, description, success) ==
  [ words |-> words, description |-> description, success |-> success, insights |-> None ]

\* retrieve_relevant's test: any word of query.lower().split() in the dump
Matches(entry, query) == \E i \in 1..Len(query) : Contains(entry.content.words, query[i])

RankKey(e) == e.importance * e.retention_strength

InsertUnranked(sorted, e) == Append(sorted, e)

RECURSIVE InsertByRank(_, _)
\* list.sort(key, reverse=True) is stable: equal keys keep scan order
InsertByRank(sorted, e) ==
  IF sorted = <<>> THEN <<e>>
  ELSE IF RankKey(sorted[1]) >= RankKey(e)
       THEN <<sorted[1]>> \o InsertByRank(Tail(sorted), e)
       ELSE <<e>> \o sorted

RECURSIVE SortByRank(_)
SortByRank(s) == IF s = <<>> THEN <<>> ELSE InsertByRank(SortByRank(SubSeq(s, 1, Len(s) - 1)), Last(s))

AccessMatching(tier, query, t) ==
  [i \in 1..Len(tier) |-> IF Matches(tier[i], query) THEN Access(tier[i], t) ELSE tier[i]]

MatchingOf(tier, query) ==
  LET T(e) == Matches(e, query)
      idx == SelectIdx(tier, T, 1)
  IN  [i \in 1..Len(idx) |-> tier[idx[i]]]

\* apply_forgetting_curve's loop from position i on: it decays entry after entry
\* and, on the first entry it removes, the deque iterator raises RuntimeError
RECURSIVE ForgetScan(_, _, _)
ForgetScan(mid, i, t) ==
  IF i > Len(mid) THEN [mid |-> mid, raised |-> FALSE]
  ELSE LET e == Decay(mid[i], t - mid[i].last_accessed)
       IN  IF e.retention_strength < RetEvictBelow /\ e.importance < ImpEvictBelow
           THEN [mid |-> RemoveAt([mid EXCEPT ![i] = e], i), raised |-> TRUE]
           ELSE ForgetScan([mid EXCEPT ![i] = e], i + 1, t)

\* the memory object as one value, and its replacement
Mem ==
  [ short_term |-> short_term, mid_term |-> mid_term, long_term |-> long_term,
    reflective |-> reflective, performance_history |-> performance_history,
    next_id |-> next_id ]

SetMem(m) ==
  /\ short_term' = m.short_term
  /\ mid_term' = m.mid_term
  /\ long_term' = m.long_term
  /\ reflective' = m.reflective
  /\ performance_history' = m.performance_history
  /\ next_id' = m.next_id

MemAddShortTerm(m, content, importance, t) ==
  [m EXCEPT !.short_term = DequeAppend(@, NewEntry(m.next_id, content, "short_term", importance, t),
                                       ShortTermMaxLen),
            !.next_id = @ + 1]

MemAddEpisode(m, episode, importance, t) ==
  LET entry == NewEntry(m.next_id, episode, "episode", importance, t)
  IN  [m EXCEPT !.mid_term = DequeAppend(@, entry, MidTermMaxLen),
                !.long_term = IF Consolidates(importance)
                              THEN ConsolidateToLongTerm(@, entry) ELSE @,
                !.next_id = @ + 1]

MemAddReflection(m, reflection, importance, t) ==
  [m EXCEPT !.reflective = Append(@, NewEntry(m.next_id, reflection, "reflection", importance, t)),
            !.next_id = @ + 1]

\* a performance record: its keys, None for an absent one
PerfRecord(task, final_score, quality_score, iterations, success) ==
  [ task |-> task, final_score |-> final_score, quality_score |-> quality_score,
    iterations |-> iterations, success |-> success, timestamp |-> None ]

MemAddPerformanceRecord(m, record, t) ==
  LET h == Append(m.performance_history, [record EXCEPT !.timestamp = Some(t)])
      m1 == [m EXCEPT !.performance_history = h]
      insights == AnalyzePerformanceTrajectory(h)
  IN  IF Len(h) >= TrajectoryMinLen /\ insights # None
      THEN MemAddReflection(m1, TrendContent(insights), TrendImportance, t)
      ELSE m1

\* retrieve_relevant: [m |-> memory after the accesses, result |-> returned list]
MemRetrieveRelevant(m, query, top_k, t) ==
  LET st == AccessMatching(m.short_term, query, t)
      mt == AccessMatching(m.mid_term, query, t)
      rf == AccessMatching(m.reflective, query, t)
      relevant == MatchingOf(st, query) \o MatchingOf(mt, query) \o MatchingOf(rf, query)
  IN  [ m |-> [m EXCEPT !.short_term = st, !.mid_term = mt, !.reflective = rf],
        result |-> FirstN(SortByRank(relevant), top_k) ]

\* apply_forgetting_curve: [m |-> memory afterwards, raised |-> RuntimeError?]
MemApplyForgettingCurve(m, t) ==
  LET r == ForgetScan(m.mid_term, 1, t)
  IN  [ m |-> [m EXCEPT !.mid_term = r.mid], raised |-> r.raised ]

-----------------------------------------------------------------------------
(* CurriculumLearningSystem *)
MasteryRateNum == 8              \* mastery_threshold = 0.8, as 8 / 10
MasteryRateDen == 10
MasteryMinAverage == 75
MasteryMinAttempts == 3
AlphaNum == 3                    \* alpha = 0.3, as 3 / 10
AlphaDen == 10
FocusMinAttempts == 3
MaxDifficulty == 5               \* DifficultyLevel.RESEARCH.value

Task(id, category, difficulty, prerequisites, estimated_time) ==
  [ id |-> id, category |-> category, difficulty |-> difficulty,
    prerequisites |-> prerequisites, estimated_time |-> estimated_time ]

\* _initialize_curriculum: the catalog in dict order
Curriculum ==
  << Task("simple_button", "ui_components", 1, <<>>, 5),
     Task("basic_form", "ui_components", 1, <<"simple_button">>, 10),
     Task("todo_list", "interactive_apps", 2, <<"basic_form">>, 15),
     Task("data_table", "data_visualization", 2, <<"todo_list">>, 20),
     Task("chart_dashboard", "data_visualization", 3, <<"data_table">>, 30),
     Task("real_time_chat", "full_stack", 3, <<"chart_dashboard">>, 45),
     Task("game_engine", "algorithms", 4, <<"real_time_chat">>, 60),
     Task("ai_code_assistant", "research", 5, <<"game_engine">>, 90) >>

CatalogIds == { Curriculum[i].id : i \in 1..Len(Curriculum) }

CatalogTask(id) == Curriculum[CHOOSE i \in 1..Len(Curriculum) : Curriculum[i].id = id]

\* MasteryLevel; average_score is the exact fraction avg_num / avg_den
NewMastery ==
  [ attempts |-> 0, successes |-> 0, best_score |-> 0, avg_num |-> 0, avg_den |-> 1,
    mastery_achieved |-> FALSE ]

\* is_task_mastered on a mastery dict ml
IsMasteredIgnoringAttempts(ml, task_id) ==
  /\ task_id \in DOMAIN ml
  /\ LET m == ml[task_id]
     IN  /\ m.attempts > 0
         /\ m.successes * MasteryRateDen >= MasteryRateNum * m.attempts
         /\ m.avg_num >= MasteryMinAverage * m.avg_den

IsMastered(ml, task_id) ==
  /\ task_id \in DOMAIN ml
  /\ LET m == ml[task_id]
     IN  /\ m.attempts > 0
         /\ m.successes * MasteryRateDen >= MasteryRateNum * m.attempts
         /\ m.avg_num >= MasteryMinAverage * m.avg_den
         /\ m.attempts >= MasteryMinAttempts

is_task_mastered(task_id) == IsMastered(mastery_levels, task_id)

\* the average after one more score: the score itself on the first attempt,
\* alpha * score + (1 - alpha) * average afterwards
EmaBlendsFirst(m, attempts, quality_score) ==
  [ num |-> AlphaNum * quality_score * m.avg_den + (AlphaDen - AlphaNum) * m.avg_num,
    den |-> AlphaDen * m.avg_den ]

Ema(m, attempts, quality_score) ==
  IF attempts = 1 THEN [ num |-> quality_score, den |-> 1 ]
  ELSE [ num |-> AlphaNum * quality_score * m.avg_den + (AlphaDen - AlphaNum) * m.avg_num,
         den |-> AlphaDen * m.avg_den ]

AppendNew(list, x) == IF \E i \in 1..Len(list) : list[i] = x THEN list ELSE Append(list, x)

\* _update_focus_areas, first loop from key position i on: the struggling areas,
\* or KeyError at the first such key that is no catalog id
RECURSIVE StrugglingAreas(_, _, _, _)
StrugglingAreas(ml, keys, i, areas) ==
  IF i > Len(keys) THEN [areas |-> areas, raised |-> NoError]
  ELSE LET m == ml[keys[i]]
       IN  IF m.attempts >= FocusMinAttempts /\ ~m.mastery_achieved
           THEN IF keys[i] \notin CatalogIds
                THEN [areas |-> areas, raised |-> "KeyError"]
                ELSE StrugglingAreas(ml, keys, i + 1,
                                     AppendNew(areas, CatalogTask(keys[i]).category))
           ELSE StrugglingAreas(ml, keys, i + 1, areas)

\* second loop: the difficulties of the mastered tasks, or KeyError
RECURSIVE MasteredDifficulties(_, _, _, _)
MasteredDifficulties(ml, keys, i, found) ==
  IF i > Len(keys) THEN [found |-> found, raised |-> NoError]
  ELSE IF ml[keys[i]].mastery_achieved
       THEN IF keys[i] \notin CatalogIds
            THEN [found |-> found, raised |-> "KeyError"]
            ELSE MasteredDifficulties(ml, keys, i + 1,
                                      found \cup {CatalogTask(keys[i]).difficulty})
       ELSE MasteredDifficulties(ml, keys, i + 1, found)

RECURSIVE CategoriesAt(_, _, _)
CategoriesAt(difficulty, i, areas) ==
  IF i > Len(Curriculum) THEN areas
  ELSE CategoriesAt(difficulty, i + 1,
                    IF Curriculum[i].difficulty = difficulty
                    THEN AppendNew(areas, Curriculum[i].category) ELSE areas)

\* _update_focus_areas: [areas |-> current_focus_areas afterwards, raised |-> ...].
\* max() of two or more DifficultyLevel members raises TypeError: the Enum
\* defines no ordering
UpdateFocusAreas(ml, keys) ==
  LET s == StrugglingAreas(ml, keys, 1, <<>>)
  IN  IF s.raised # NoError \/ s.areas # <<>> THEN s
      ELSE LET d == MasteredDifficulties(ml, keys, 1, {})
           IN  IF d.raised # NoError THEN [areas |-> <<>>, raised |-> d.raised]
               ELSE IF d.found = {} THEN [areas |-> <<>>, raised |-> NoError]
               ELSE IF Cardinality(d.found) > 1 THEN [areas |-> <<>>, raised |-> "TypeError"]
               ELSE LET next_difficulty == (CHOOSE x \in d.found : TRUE) + 1
                    IN  IF next_difficulty <= MaxDifficulty
                        THEN [areas |-> CategoriesAt(next_difficulty, 1, <<>>),
                              raised |-> NoError]
                        ELSE [areas |-> <<>>, raised |-> NoError]

\* record_task_attempt up to the call of _update_focus_areas: the mastery dict
RecordedMasteryLatestScore(ml, task_id, success, quality_score) ==
  LET old == IF task_id \in DOMAIN ml THEN ml[task_id] ELSE NewMastery
      attempts == old.attempts + 1
      avg == Ema(old, attempts, quality_score)
      upd == [ attempts |-> attempts,
               successes |-> IF success THEN old.successes + 1 ELSE old.successes,
               best_score |-> quality_score,
               avg_num |-> avg.num, avg_den |-> avg.den,
               mastery_achieved |-> FALSE ]
      ml1 == [k \in DOMAIN ml \cup {task_id} |-> IF k = task_id THEN upd ELSE ml[k]]
  IN  [ml1 EXCEPT ![task_id].mastery_achieved = IsMastered(ml1, task_id)]

RecordedMasteryFlagBeforeUpdate(ml, task_id, success, quality_score) ==
  LET old == IF task_id \in DOMAIN ml THEN ml[task_id] ELSE NewMastery
      attempts == old.attempts + 1
      avg == Ema(old, attempts, quality_score)
      upd == [ attempts |-> attempts,
               successes |-> IF success THEN old.successes + 1 ELSE old.successes,
               best_score |-> MaxOf(old.best_score, quality_score),
               avg_num |-> avg.num, avg_den |-> avg.den,
               mastery_achieved |-> IsMastered(ml, task_id) ]
  IN  [k \in DOMAIN ml \cup {task_id} |-> IF k = task_id THEN upd ELSE ml[k]]

RecordedMasteryCountsOnEveryRecord(ml, task_id, success, quality_score) ==
  LET old == IF task_id \in DOMAIN ml THEN ml[task_id] ELSE NewMastery
      avg == Ema(old, old.attempts + 1, quality_score)
      Counted(m) == [m EXCEPT !.attempts = @ + 1,
                              !.successes = IF success THEN @ + 1 ELSE @]
      upd == [Counted(old) EXCEPT !.best_score = MaxOf(@, quality_score),
                                  !.avg_num = avg.num, !.avg_den = avg.den]
      ml1 == [k \in DOMAIN ml \cup {task_id} |->
                IF k = task_id THEN upd ELSE Counted(ml[k])]
  IN  [ml1 EXCEPT ![task_id].mastery_achieved = IsMastered(ml1, task_id)]

RecordedMastery(ml, task_id, success, quality_score) ==
  LET old == IF task_id \in DOMAIN ml THEN ml[task_id] ELSE NewMastery
      attempts == old.attempts + 1
      avg == Ema(old, attempts, quality_score)
      upd == [ attempts |-> attempts,
               successes |-> IF success THEN old.successes + 1 ELSE old.successes,
               best_score |-> MaxOf(old.best_score, quality_score),
               avg_num |-> avg.num, avg_den |-> avg.den,
               mastery_achieved |-> FALSE ]
      ml1 == [k \in DOMAIN ml \cup {task_id} |-> IF k = task_id THEN upd ELSE ml[k]]
  IN  [ml1 EXCEPT ![task_id].mastery_achieved = IsMastered(ml1, task_id)]

\* sort(key=(difficulty.value, estimated_time)) is stable
TaskBefore(a, b) ==
  \/ a.difficulty < b.difficulty
  \/ a.difficulty = b.difficulty /\ a.estimated_time < b.estimated_time

RECURSIVE InsertTask(_, _)
InsertTask(sorted, t) ==
  IF sorted = <<>> THEN <<t>>
  ELSE IF TaskBefore(t, sorted[1]) THEN <<t>> \o sorted
  ELSE <<sorted[1]>> \o InsertTask(Tail(sorted), t)

RECURSIVE SortTasks(_)
SortTasks(s) == IF s = <<>> THEN <<>> ELSE InsertTask(SortTasks(SubSeq(s, 1, Len(s) - 1)), Last(s))

PrerequisitesMetOfItself(ml, task) ==
  \A j \in 1..Len(task.prerequisites) : IsMastered(ml, task.id)

PrerequisitesMet(ml, task) ==
  \A i \in 1..Len(task.prerequisites) : IsMastered(ml, task.prerequisites[i])

AvailableIgnoringPrerequisites(ml, task) == ~IsMastered(ml, task.id)

Available(ml, task) == PrerequisitesMet(ml, task) /\ ~IsMastered(ml, task.id)

RECURSIVE AvailableTasks(_, _)
AvailableTasks(ml, i) ==
  IF i > Len(Curriculum) THEN <<>>
  ELSE (IF Available(ml, Curriculum[i]) THEN <<Curriculum[i]>> ELSE <<>>)
       \o AvailableTasks(ml, i + 1)

\* get_next_recommended_tasks
NextRecommendedTasks(ml, max_tasks) == FirstN(SortTasks(AvailableTasks(ml, 1)), max_tasks)

\* the curriculum tracker before any attempt
EmptyDict == [k \in {} |-> None]

InitCurIdle ==
  /\ mastery_levels = EmptyDict
  /\ mastery_keys = <<>>
  /\ current_focus_areas = <<>>
  /\ attempt_log = EmptyDict

-----------------------------------------------------------------------------
(* ReflexionFramework.  The external capability (LlmChat.send_message and the
   JSON parse of its answer) is the environment: an answer parses to a dict,
   or it does not parse, or the call itself fails.  The text of an answer is
   left out of the stored contents; what the loop reads from it is kept. *)
ExcellentScore == 95             \* score >= 95
SuccessScore == 80               \* score >= 80
EpisodeImportanceHigh == 80      \* importance=0.8 if score >= 80
EpisodeImportanceLow == 60       \* else 0.6
ReflectionImportance == 95       \* importance=0.95
ShortTermImportance == 50        \* add_short_term's default importance
ActorTopK == 3                   \* retrieve_relevant(task, top_k=3)
CycleMaxIterations == 3          \* reflexion_loop(..., max_iterations=3)

\* the loop's break test
ExcellentAbove(score, verdict) == score > ExcellentScore \/ verdict = "pass"

ExcellentByScore(score, verdict) == score >= ExcellentScore

Excellent(score, verdict) == score >= ExcellentScore \/ verdict = "pass"

\* 'success': score >= 80 of an episode
IterationSucceeded(score) == score >= SuccessScore

\* 'success': best_score >= 80 of the performance record
RunSucceededAbove(best_score) == best_score > SuccessScore

RunSucceeded(best_score) == best_score >= SuccessScore

\* `if score > best_score`
BetterAtOrAbove(score, best_score) == score >= best_score

Better(score, best_score) == score > best_score

\* `for iteration in range(max_iterations)`: iteration (from 0) was the last
ExhaustedLate(iteration, max_iterations) == iteration >= max_iterations

Exhausted(iteration, max_iterations) == iteration + 1 >= max_iterations

\* every stored content carries the key 'task' and the task's words
LoopContent(task, kind, success) == Content(<<"task">> \o task \o <<kind>>, None, success)

\* the memory after actor_generate, evaluator_assess and self_reflect resume,
\* the last with the loop's add_episode
AfterGenerate(m, task, t) ==
  MemAddShortTerm(m, LoopContent(task, "initial_generation", FALSE), ShortTermImportance, t)

AfterEvaluate(m, task, t) ==
  MemAddShortTerm(m, LoopContent(task, "evaluation", FALSE), ShortTermImportance, t)

AfterReflectConsolidating(m, task, score, t) ==
  MemAddEpisode(MemAddReflection(m, LoopContent(task, "reflection", FALSE),
                                 ReflectionImportance, t),
                LoopContent(task, "episode", IterationSucceeded(score)),
                IF IterationSucceeded(score) THEN ReflectionImportance
                ELSE EpisodeImportanceLow, t)

AfterReflect(m, task, score, t) ==
  MemAddEpisode(MemAddReflection(m, LoopContent(task, "reflection", FALSE),
                                 ReflectionImportance, t),
                LoopContent(task, "episode", IterationSucceeded(score)),
                IF IterationSucceeded(score) THEN EpisodeImportanceHigh
                ELSE EpisodeImportanceLow, t)

Call(name, iteration, args) == [ call |-> name, iteration |-> iteration, args |-> args ]

\* the locals at the top of reflexion_loop; caller is the entry point
NewLocals(task, max_iterations, caller) ==
  [ task |-> task, max_iterations |-> max_iterations, caller |-> caller,
    iteration |-> 0, iteration_log |-> <<>>, best_solution |-> None, best_score |-> 0,
    solution |-> None, evaluation |-> None, prev |-> None ]

\* counts taken when a run starts
RECURSIVE TotalAttempts(_, _, _)
TotalAttempts(ml, keys, i) ==
  IF i > Len(keys) THEN 0 ELSE ml[keys[i]].attempts + TotalAttempts(ml, keys, i + 1)

Snapshot ==
  [ performance_records |-> Len(performance_history),
    attempts |-> TotalAttempts(mastery_levels, mastery_keys, 1),
    experiences |-> Len(learning_experiences),
    long_term |-> long_term ]

NoOutcome ==
  [ op |-> "none", status |-> "none", raised |-> NoError, result |-> None,
    before |-> None ]

\* _get_current_difficulty_level: the level, or KeyError at a mastered key
\* that is no catalog id
RECURSIVE MasteredLevels(_, _, _, _)
MasteredLevels(ml, keys, i, levels) ==
  IF i > Len(keys) THEN [levels |-> levels, raised |-> NoError]
  ELSE IF ml[keys[i]].mastery_achieved
       THEN IF keys[i] \notin CatalogIds
            THEN [levels |-> levels, raised |-> "KeyError"]
            ELSE MasteredLevels(ml, keys, i + 1,
                                levels \cup {CatalogTask(keys[i]).difficulty})
       ELSE MasteredLevels(ml, keys, i + 1, levels)

CurrentDifficultyLevel(ml, keys) ==
  LET r == MasteredLevels(ml, keys, 1, {})
  IN  IF r.raised # NoError THEN [level |-> 0, raised |-> r.raised]
      ELSE IF r.levels = {} THEN [level |-> 1, raised |-> NoError]
      ELSE [level |-> CHOOSE x \in r.levels : \A y \in r.levels : y <= x,
            raised |-> NoError]

\* get_adaptive_task_suggestion.  A suggestion names the task by its id
AdaptiveWindow == 5        \* recent_performance[-5:]

Suggestion(kind, task) == [ kind |-> kind, task |-> task ]

QualitySum(w) == SumSeq([i \in 1..Len(w) |-> w[i].quality_score])

SuccessCount(w) == Cardinality({i \in 1..Len(w) : w[i].success})

\* recent_success_rate > 0.8 and recent_avg_quality > 80
PerformingWell(w) == SuccessCount(w) * 10 > 8 * Len(w) /\ QualitySum(w) > 80 * Len(w)

\* recent_success_rate < 0.4 or recent_avg_quality < 60
StrugglingOnBoth(w) == SuccessCount(w) * 10 < 4 * Len(w) /\ QualitySum(w) < 60 * Len(w)

Struggling(w) == SuccessCount(w) * 10 < 4 * Len(w) \/ QualitySum(w) < 60 * Len(w)

\* the tasks of one difficulty that are not mastered, in catalog order
UnmasteredAt(ml, difficulty) ==
  LET Open(t) == t.difficulty = difficulty /\ ~IsMastered(ml, t.id)
  IN  SelectSeq(Curriculum, Open)

\* [suggestion |-> ..., raised |-> the exception _get_current_difficulty_level raises]
AdaptiveTaskSuggestion(ml, keys, recent_performance) ==
  LET w == LastN(recent_performance, AdaptiveWindow)
      beginner == LET Entry(t) == t.difficulty = 1 /\ t.prerequisites = <<>>
                  IN  SelectSeq(Curriculum, Entry)
      next == NextRecommendedTasks(ml, 1)
      normal == IF next = <<>> THEN Suggestion("none", "") ELSE Suggestion("next", next[1].id)
      current == CurrentDifficultyLevel(ml, keys)
      easier == UnmasteredAt(ml, current.level - 1)
  IN  IF recent_performance = <<>>
      THEN [ suggestion |-> IF beginner = <<>> THEN Suggestion("none", "")
                            ELSE Suggestion("start", beginner[1].id),
             raised |-> NoError ]
      ELSE IF PerformingWell(w) THEN [suggestion |-> normal, raised |-> NoError]
      ELSE IF Struggling(w)
           THEN IF current.raised # NoError
                THEN [suggestion |-> Suggestion("none", ""), raised |-> current.raised]
                ELSE IF current.level > 1 /\ easier # <<>>
                     THEN [ suggestion |-> Suggestion("review", easier[1].id),
                            raised |-> NoError ]
                     ELSE [suggestion |-> normal, raised |-> NoError]
      ELSE [suggestion |-> normal, raised |-> NoError]

\* get_learning_analytics: the exception it raises, if any
LearningAnalyticsRaised(ml, keys) ==
  IF keys = <<>> THEN NoError
  ELSE IF \E i \in 1..Len(keys) : keys[i] \notin CatalogIds THEN "KeyError"
  ELSE CurrentDifficultyLevel(ml, keys).raised

\* from the end of the for loop to the return of the entry point:
\* add_performance_record and the result of reflexion_loop; for the controller
\* then apply_forgetting_curve and the reports
AfterLoop(m, l, t, ml, keys, cycle) ==
  LET m1 == MemAddPerformanceRecord(
              m, PerfRecord(l.task, Some(l.best_score), None, Some(Len(l.iteration_log)),
                            RunSucceeded(l.best_score)), t)
      result == [ solution |-> l.best_solution, final_score |-> l.best_score,
                  iterations |-> l.iteration_log, improvement_cycle |-> None ]
  IN  IF l.caller = "reflexion_loop"
      THEN [m |-> m1, raised |-> NoError, result |-> Some(result)]
      ELSE LET f == MemApplyForgettingCurve(m1, t)
               a == LearningAnalyticsRaised(ml, keys)
           IN  IF f.raised THEN [m |-> f.m, raised |-> "RuntimeError", result |-> None]
               ELSE IF a # NoError THEN [m |-> f.m, raised |-> a, result |-> None]
               ELSE [m |-> f.m, raised |-> NoError,
                     result |-> Some([result EXCEPT !.improvement_cycle = Some(cycle)])]

InitLoopIdle ==
  /\ pc = "idle"
  /\ loop = None
  /\ calls = <<>>
  /\ outcome = NoOutcome
  /\ parked = None
  /\ improvement_cycle_count = 0

-----------------------------------------------------------------------------
(* MetaLearningEngine.  Rates, confidences and scores are in ten-thousandths
   (MetaOne is 1.0); a quality is an integer 0..100 and an average quality is
   kept in hundredths of a point, so that avg_quality / 100 is in
   ten-thousandths as well. *)
MetaOne == 10000
ExperiencesMaxLen == 1000        \* deque(maxlen=1000)
MinSamplesForConfidence == 5     \* 'min_samples_for_confidence': 5
InitialExplorationRate == 3000   \* 'exploration_rate': 0.3
InitialTransferThreshold == 7000 \* 'transfer_threshold': 0.7
ConfidenceThreshold == 8000      \* 'confidence_threshold': 0.8
NeutralScore == 5000             \* 0.5
ConsistencyFloor == 1000         \* max(0.1, ...)
SuccessWeight == 6               \* success_rate * 0.6
QualityWeight == 4               \* avg_quality / 100 * 0.4
AdaptMinExperiences == 10        \* len(self.learning_experiences) < 10
AdaptWindow == 20                \* [-20:]
ExplorationRateMin == 1000
ExplorationRateMax == 5000
TransferThresholdMin == 5000
TransferThresholdMax == 9000

\* the members of LearningStrategy in definition order
LearningStrategy == <<"imitation", "exploration", "refinement", "transfer", "composition">>

Strategies == { LearningStrategy[i] : i \in 1..Len(LearningStrategy) }

LearningExperience(strategy, domain, complexity, approach, quality, time_taken, success, t) ==
  [ strategy_used |-> strategy, task_domain |-> domain, task_complexity |-> complexity,
    approach_taken |-> approach, outcome_quality |-> quality, time_taken |-> time_taken,
    success |-> success, timestamp |-> t ]

\* the engine as one value
NewMeta ==
  [ learning_experiences |-> <<>>,
    strategy_effectiveness |-> EmptyDict,
    adaptive_parameters |->
      [ exploration_rate |-> InitialExplorationRate,
        transfer_threshold |-> InitialTransferThreshold,
        confidence_threshold |-> ConfidenceThreshold,
        min_samples_for_confidence |-> MinSamplesForConfidence ],
    domain_similarities |-> EmptyDict ]

Meta ==
  [ learning_experiences |-> learning_experiences,
    strategy_effectiveness |-> strategy_effectiveness,
    adaptive_parameters |-> adaptive_parameters,
    domain_similarities |-> domain_similarities ]

\* the largest r in lo..hi with r * r <= v
RECURSIVE ISqrtIn(_, _, _)
ISqrtIn(v, lo, hi) ==
  IF lo >= hi THEN lo
  ELSE LET mid == (lo + hi + 1) \div 2
       IN  IF mid * mid <= v THEN ISqrtIn(v, mid, hi) ELSE ISqrtIn(v, lo, mid - 1)

\* sums over a list of experiences, halving the list so that a full log
\* of ExperiencesMaxLen experiences is summed at a depth of about ten
RECURSIVE SumQuality(_)
SumQuality(exps) ==
  IF exps = <<>> THEN 0
  ELSE IF Len(exps) = 1 THEN exps[1].outcome_quality
  ELSE LET half == Len(exps) \div 2
       IN  SumQuality(SubSeq(exps, 1, half)) + SumQuality(SubSeq(exps, half + 1, Len(exps)))

RECURSIVE SumSquaredQuality(_)
SumSquaredQuality(exps) ==
  IF exps = <<>> THEN 0
  ELSE IF Len(exps) = 1 THEN exps[1].outcome_quality * exps[1].outcome_quality
  ELSE LET half == Len(exps) \div 2
       IN  SumSquaredQuality(SubSeq(exps, 1, half))
           + SumSquaredQuality(SubSeq(exps, half + 1, Len(exps)))

RECURSIVE SumTime(_)
SumTime(exps) ==
  IF exps = <<>> THEN 0
  ELSE IF Len(exps) = 1 THEN exps[1].time_taken
  ELSE LET half == Len(exps) \div 2
       IN  SumTime(SubSeq(exps, 1, half)) + SumTime(SubSeq(exps, half + 1, Len(exps)))

\* np.std of the qualities, in tenths of a point: the root of
\* 100 * (n * sum(q^2) - sum(q)^2) / n^2, rounded down.  With m the whole part
\* and r the remainder of sum(q) / n, n times the variance is
\* sum((q - m)^2) - r^2 / n, which keeps every intermediate value small
StdTenths(exps) ==
  LET n == Len(exps)
      total == SumQuality(exps)
      m == total \div n
      r == total % n
      centred == SumSquaredQuality(exps) - 2 * m * total + n * m * m
      correction == (100 * r * r + n - 1) \div n
  IN  ISqrtIn((100 * centred - correction) \div n, 0, 1000)

\* max(0.1, 1 - quality_std / 100) over the successful experiences; np.std of
\* an empty list is nan, and max(0.1, nan) is 0.1
ConsistencyFactor(successful) ==
  IF successful = <<>> THEN ConsistencyFloor
  ELSE MaxOf(ConsistencyFloor, MetaOne - 10 * StdTenths(successful))

\* the confidence of a record over sample_size experiences
ConfidenceOfSizeOnly(sample_size, successful, min_samples) ==
  MinOf(MetaOne, (sample_size * MetaOne) \div min_samples)

Confidence(sample_size, successful, min_samples) ==
  LET by_size == MinOf(MetaOne, (sample_size * MetaOne) \div min_samples)
  IN  IF sample_size > 1
      THEN (by_size * ConsistencyFactor(successful)) \div MetaOne
      ELSE by_size

RelevantExperiences(exps, strategy, domain) ==
  SelectSeq(exps, LAMBDA e : e.strategy_used = strategy /\ e.task_domain = domain)

Successful(exps) == SelectSeq(exps, LAMBDA e : e.success)

\* _update_strategy_effectiveness: the dict afterwards
UpdateStrategyEffectivenessMerged(exps, se, strategy, domain, min_samples, t) ==
  LET relevant == RelevantExperiences(exps, strategy, domain)
      successful == Successful(relevant)
      n == Len(relevant)
      old == IF <<strategy, domain>> \in DOMAIN se THEN se[<<strategy, domain>>]
             ELSE [success_rate |-> 0, avg_quality |-> 0, sample_size |-> 0]
      latest == Last(relevant)
  IN  IF relevant = <<>> THEN se
      ELSE [k \in DOMAIN se \cup {<<strategy, domain>>} |->
              IF k = <<strategy, domain>>
              THEN [ strategy |-> strategy, domain |-> domain,
                     success_rate |-> (old.success_rate
                                       + (IF latest.success THEN MetaOne ELSE 0)) \div 2,
                     avg_quality |-> (old.avg_quality + 100 * latest.outcome_quality) \div 2,
                     avg_time |-> SumTime(relevant) \div n,
                     sample_size |-> old.sample_size + 1,
                     confidence |-> Confidence(n, successful, min_samples),
                     last_updated |-> t ]
              ELSE se[k]]

UpdateStrategyEffectiveness(exps, se, strategy, domain, min_samples, t) ==
  LET relevant == RelevantExperiences(exps, strategy, domain)
      successful == Successful(relevant)
      n == Len(relevant)
  IN  IF relevant = <<>> THEN se
      ELSE [k \in DOMAIN se \cup {<<strategy, domain>>} |->
              IF k = <<strategy, domain>>
              THEN [ strategy |-> strategy, domain |-> domain,
                     success_rate |-> (Len(successful) * MetaOne) \div n,
                     avg_quality |-> IF successful = <<>> THEN 0
                                     ELSE (100 * SumQuality(successful)) \div Len(successful),
                     avg_time |-> SumTime(relevant) \div n,
                     sample_size |-> n,
                     confidence |-> Confidence(n, successful, min_samples),
                     last_updated |-> t ]
              ELSE se[k]]

\* the base score of a recorded key
EffectivenessScore(eff) ==
  (((eff.success_rate * SuccessWeight + eff.avg_quality * QualityWeight) \div 10)
     * eff.confidence) \div MetaOne

\* _get_domain_strategy_effectiveness
NeverNeutral(se, strategy, domain) ==
  IF <<strategy, domain>> \in DOMAIN se THEN EffectivenessScore(se[<<strategy, domain>>])
  ELSE 0

BaseScore(se, strategy, domain) ==
  IF <<strategy, domain>> \in DOMAIN se THEN EffectivenessScore(se[<<strategy, domain>>])
  ELSE NeutralScore

DomainStrategyEffectiveness(se, domain) ==
  [strategy \in Strategies |-> BaseScore(se, strategy, domain)]

\* successes / len compared with num / 10
RateAbove(exps, num) == 10 * Len(Successful(exps)) > num * Len(exps)
RateBelow(exps, num) == 10 * Len(Successful(exps)) < num * Len(exps)

\* _adapt_parameters
AdaptParametersUnclamped(exps, ap) ==
  IF Len(exps) < AdaptMinExperiences THEN ap
  ELSE LET recent == LastN(exps, AdaptWindow)
           exploration == SelectSeq(recent, LAMBDA e : e.strategy_used = "exploration")
           transfer == SelectSeq(recent, LAMBDA e : e.strategy_used = "transfer")
           er == ap.exploration_rate
           tt == ap.transfer_threshold
       IN  [ap EXCEPT
              !.exploration_rate =
                 IF exploration = <<>> THEN er
                 ELSE IF RateAbove(exploration, 7) THEN (er * 11) \div 10
                 ELSE IF RateBelow(exploration, 3) THEN (er * 9) \div 10
                 ELSE er,
              !.transfer_threshold =
                 IF transfer = <<>> THEN tt
                 ELSE IF RateAbove(transfer, 8) THEN (tt * 95) \div 100
                 ELSE IF RateBelow(transfer, 4) THEN (tt * 105) \div 100
                 ELSE tt]

AdaptParameters(exps, ap) ==
  IF Len(exps) < AdaptMinExperiences THEN ap
  ELSE LET recent == LastN(exps, AdaptWindow)
           exploration == SelectSeq(recent, LAMBDA e : e.strategy_used = "exploration")
           transfer == SelectSeq(recent, LAMBDA e : e.strategy_used = "transfer")
           er == ap.exploration_rate
           tt == ap.transfer_threshold
       IN  [ap EXCEPT
              !.exploration_rate =
                 IF exploration = <<>> THEN er
                 ELSE IF RateAbove(exploration, 7) THEN MinOf(ExplorationRateMax, (er * 11) \div 10)
                 ELSE IF RateBelow(exploration, 3) THEN MaxOf(ExplorationRateMin, (er * 9) \div 10)
                 ELSE er,
              !.transfer_threshold =
                 IF transfer = <<>> THEN tt
                 ELSE IF RateAbove(transfer, 8) THEN MaxOf(TransferThresholdMin, (tt * 95) \div 100)
                 ELSE IF RateBelow(transfer, 4) THEN MinOf(TransferThresholdMax, (tt * 105) \div 100)
                 ELSE tt]

\* record_learning_outcome: [me |-> the engine afterwards, raised |-> ...].
\* asyncio.create_task raises RuntimeError when no event loop is running; the
\* task it creates otherwise fails inside its own try block and changes nothing
MetaRecordLearningOutcome(me, experience, running_loop) ==
  LET exps == DequeAppend(me.learning_experiences, experience, ExperiencesMaxLen)
      se == UpdateStrategyEffectiveness(exps, me.strategy_effectiveness,
                                        experience.strategy_used, experience.task_domain,
                                        me.adaptive_parameters.min_samples_for_confidence,
                                        experience.timestamp)
      me1 == [me EXCEPT !.learning_experiences = exps, !.strategy_effectiveness = se]
  IN  IF ~running_loop THEN [me |-> me1, raised |-> "RuntimeError"]
      ELSE [me |-> [me1 EXCEPT !.adaptive_parameters = AdaptParameters(exps, @)],
            raised |-> NoError]

InitMetaIdle ==
  /\ learning_experiences = NewMeta.learning_experiences
  /\ strategy_effectiveness = NewMeta.strategy_effectiveness
  /\ adaptive_parameters = NewMeta.adaptive_parameters
  /\ domain_similarities = NewMeta.domain_similarities

-----------------------------------------------------------------------------
(* ManagerAgent.  The sub-agents' process_message catch every Exception and
   answer with a result or with an error response *)
LogEntry(step, status) == [step |-> step, status |-> status]

\* the locals of _orchestrate_generation and what it returned
NewManager ==
  [ pc |-> "idle", description |-> None, auto_review |-> FALSE, workflow_log |-> <<>>,
    generated_code |-> None, result |-> None ]

\* a background task: _analyze_in_background(files, description)
AnalysisTask(files, description) ==
  [ files |-> files, description |-> description, status |-> "scheduled",
    ended |-> None ]

\* asyncio.create_task: the task is scheduled, it has not run when the call returns
AwaitAnalysis(tasks, files, description) ==
  Append(tasks, [AnalysisTask(files, description) EXCEPT
                   !.status = "finished", !.ended = Some("result")])

ScheduleAnalysis(tasks, files, description) ==
  Append(tasks, AnalysisTask(files, description))

\* the dict _orchestrate_generation returns when generation failed
FailureResult(error, workflow_log) ==
  [ success |-> FALSE, error |-> Some(error), files |-> None, review |-> None,
    workflow_log |-> workflow_log ]

\* ... and at its end
OrchestratedResult(generated_code, review_result, workflow_log) ==
  [ success |-> TRUE, error |-> None, files |-> Some(generated_code.files),
    review |-> review_result, workflow_log |-> workflow_log ]

InitManagerIdle ==
  /\ manager = NewManager
  /\ background = <<>>

-----------------------------------------------------------------------------
(* AdvancedReflexionFramework.  Confidence and impact in hundredths.  The
   tactical, strategic and meta-learning reflections never suspend; the causal
   and the counterfactual analysis await the model's answer in a thread *)
InsightConfidenceThreshold == 70   \* insight_confidence_threshold = 0.7
DeepReflectionImportance == 90     \* add_reflection(..., importance=0.9)
LowQualityBelow == 70              \* quality_score < 70
SlowAbove == 30                    \* time_taken > 30
StrategicHistoryLen == 10          \* performance_history[-10:] if len(...) >= 10
StrategicMinScores == 5            \* len(quality_scores) >= 5
StrategicDelta == 5                \* recent_avg > older_avg + 5
MetaReflectionAfter == 5           \* meta_learning_cycles > 5
MetaReflectionMinHistory == 10     \* len(self.reflection_history) >= 10
CausalMinConfidence == 60          \* causal_data.get('confidence', 0) > 0.6
CounterfactualConfidence == 70     \* confidence=0.7

\* a ReflectionInsight; every insight the framework builds has actionable steps
Insight(type, about, confidence, impact_score) ==
  [ type |-> type, about |-> about, confidence |-> confidence,
    impact_score |-> impact_score ]

TacticalReflection(performance_data) ==
  (IF performance_data.quality_score < LowQualityBelow /\ performance_data.success
   THEN <<Insight("performance", "quality", 80, 70)>> ELSE <<>>)
  \o (IF performance_data.time_taken > SlowAbove
      THEN <<Insight("performance", "time", 90, 60)>> ELSE <<>>)

StrategicReflection(h) ==
  LET recent == IF Len(h) >= StrategicHistoryLen THEN LastN(h, StrategicHistoryLen) ELSE <<>>
      idx    == SelectIdx(recent, HasQuality, 1)
      scores == [i \in 1..Len(idx) |-> The(recent[idx[i]].quality_score)]
      sum_recent == SumSeq(LastN(scores, 3))
      sum_older  == SumSeq(FirstN(scores, 3))
  IN  IF Len(recent) >= 5 /\ Len(scores) >= StrategicMinScores
      THEN IF sum_recent > sum_older + 3 * StrategicDelta
           THEN <<Insight("pattern_discovery", "improving", 85, 80)>>
           ELSE IF sum_recent < sum_older - 3 * StrategicDelta
                THEN <<Insight("error_analysis", "declining", 90, 90)>>
                ELSE <<>>
      ELSE <<>>

MetaLearningReflection(reflection_history) ==
  LET actionable == Len(reflection_history)
      high == Cardinality({i \in 1..Len(reflection_history) :
                             reflection_history[i].impact_score > 70})
  IN  IF Len(reflection_history) >= MetaReflectionMinHistory
      THEN IF high * 10 > 7 * actionable
           THEN <<Insight("meta_learning", "effective", 80, 80)>>
           ELSE IF high * 10 < 3 * actionable
                THEN <<Insight("meta_learning", "ineffective", 90, 90)>>
                ELSE <<>>
      ELSE <<>>

\* the model's answer to an analysis: it parses, or it does not, or the call fails
Parsed(confidence, most_promising) ==
  [ kind |-> "parsed", confidence |-> confidence, most_promising |-> most_promising ]

Failed(kind) == [ kind |-> kind, confidence |-> 0, most_promising |-> FALSE ]

\* _causal_analysis after its await: the try block catches every Exception
CausalInsightsUnguarded(answer) ==
  IF answer.kind # "parsed" \/ answer.confidence > CausalMinConfidence
  THEN <<Insight("error_analysis", "causal", answer.confidence, 80)>>
  ELSE <<>>

CausalInsights(answer) ==
  IF answer.kind = "parsed" /\ answer.confidence > CausalMinConfidence
  THEN <<Insight("error_analysis", "causal", answer.confidence, 80)>>
  ELSE <<>>

\* _counterfactual_analysis after its await
CounterfactualInsights(answer) ==
  IF answer.kind = "parsed" /\ answer.most_promising
  THEN <<Insight("strategy_optimization", "counterfactual", CounterfactualConfidence, 80)>>
  ELSE <<>>

HighConfidence(insights) ==
  LET Confident(i) == i.confidence >= InsightConfidenceThreshold
  IN  SelectSeq(insights, Confident)

\* the add_reflection calls of deep_reflection_cycle
RECURSIVE StoreInsights(_, _, _)
StoreInsights(m, insights, t) ==
  IF insights = <<>> THEN m
  ELSE StoreInsights(MemAddReflection(m, Content(<<insights[1].type, insights[1].about>>,
                                                 None, FALSE),
                                      DeepReflectionImportance, t),
                     Tail(insights), t)

NewAdvanced ==
  [ pc |-> "idle", reflection_history |-> <<>>, meta_learning_cycles |-> 0,
    insights |-> <<>>, performance_data |-> None, result |-> None ]

\* the framework when deep_reflection_cycle returns
AfterDeepReflection(a, insights) ==
  [ a EXCEPT !.pc = "idle", !.insights = insights,
             !.reflection_history = @ \o HighConfidence(insights),
             !.meta_learning_cycles = @ + 1,
             !.result = Some(HighConfidence(insights)) ]

InitAdvancedIdle == advanced = NewAdvanced

\* _update_domain_similarities as a task of the event loop
SimilarityTask == [ kind |-> "update_domain_similarities", status |-> "scheduled",
                    ended |-> None ]

DomainsOf(experiences) == {experiences[i].task_domain : i \in 1..Len(experiences)}

\* _update_domain_similarities: [me |-> the engine afterwards, caught |-> ...].
\* similarity_chat is None, so the call on it fails inside the try block, before
\* domain_similarities is assigned
MetaUpdateDomainSimilarities(me) ==
  IF Cardinality(DomainsOf(me.learning_experiences)) >= 2
  THEN [me |-> me, caught |-> "AttributeError"]
  ELSE [me |-> me, caught |-> NoError]

-----------------------------------------------------------------------------
(* The memory store driven through its public operations *)
EpisodeContents ==
  { Content(<<"build", "button">>, Some("button"), TRUE),
    Content(<<"chart">>, None, FALSE) }

EpisodeImportances == {30, 80, 85}

ShortTermContents == { Content(<<"button">>, None, FALSE) }

ReflectionContents == { Content(<<"application">>, None, FALSE) }

Queries == { <<"button">>, <<"app", "chart">> }

TopKs == {1, 5}

PerfInputs ==
  { PerfRecord("t", None, Some(90), None, TRUE),
    PerfRecord("t", Some(60), None, Some(1), FALSE) }

TickHours == 20

Op(name, arg, result, raised) ==
  [ op |-> name, arg |-> arg, result |-> result, raised |-> raised, prev |-> last_op.op ]

NoOp == [ op |-> "init", arg |-> None, result |-> None, raised |-> NoError, prev |-> "init" ]

EmptyMem ==
  [ short_term |-> <<>>, mid_term |-> <<>>, long_term |-> EmptyLongTerm,
    reflective |-> <<>>, performance_history |-> <<>>, next_id |-> 1 ]

\* the store after n add_episode calls at time 0, unimportant and ordinary
\* episodes alternating
RECURSIVE Prefilled(_)
Prefilled(n) ==
  IF n = 0 THEN EmptyMem
  ELSE MemAddEpisode(Prefilled(n - 1),
                     Content(<<"chart">>, None, n % 2 = 0),
                     IF n % 3 = 0 THEN 30 ELSE 60, 0)

\* that store aged: TickHours later the forgetting curve was applied and every
\* episode was then retrieved
Aged(m) ==
  MemRetrieveRelevant(MemApplyForgettingCurve(m, TickHours).m, <<"chart">>, 5, TickHours).m

\* the initial states: a new store, an almost full one, an aged almost full one
InitialStores ==
  { [m |-> EmptyMem, t |-> 0],
    [m |-> Prefilled(MidTermMaxLen - 1), t |-> 0],
    [m |-> Aged(Prefilled(MidTermMaxLen - 1)), t |-> TickHours] }

\* the memory store as constructed
InitMemIdle ==
  /\ short_term = <<>>
  /\ mid_term = <<>>
  /\ long_term = EmptyLongTerm
  /\ reflective = <<>>
  /\ performance_history = <<>>
  /\ next_id = 1
  /\ now = 0

InitMem ==
  /\ \E s \in InitialStores :
       /\ short_term = s.m.short_term
       /\ mid_term = s.m.mid_term
       /\ long_term = s.m.long_term
       /\ reflective = s.m.reflective
       /\ performance_history = s.m.performance_history
       /\ next_id = s.m.next_id
       /\ now = s.t
  /\ last_op = NoOp
  /\ steps = 0
  /\ InitCurIdle
  /\ InitLoopIdle
  /\ InitMetaIdle
  /\ InitManagerIdle
  /\ InitAdvancedIdle

Step == steps < MaxOps /\ steps' = steps + 1

AddShortTerm ==
  /\ Step
  /\ \E c \in ShortTermContents :
       /\ SetMem(MemAddShortTerm(Mem, c, 50, now))
       /\ last_op' = Op("add_short_term", [content |-> c, importance |-> 50], next_id, NoError)
  /\ UNCHANGED <<now, outside_mem>>

AddEpisode ==
  /\ Step
  /\ \E c \in EpisodeContents, imp \in EpisodeImportances :
       /\ SetMem(MemAddEpisode(Mem, c, imp, now))
       /\ last_op' = Op("add_episode", [content |-> c, importance |-> imp], next_id, NoError)
  /\ UNCHANGED <<now, outside_mem>>

AddReflection ==
  /\ Step
  /\ \E c \in ReflectionContents :
       /\ SetMem(MemAddReflection(Mem, c, 90, now))
       /\ last_op' = Op("add_reflection", [content |-> c, importance |-> 90], next_id, NoError)
  /\ UNCHANGED <<now, outside_mem>>

AddPerformanceRecord ==
  /\ Step
  /\ \E r \in PerfInputs :
       /\ SetMem(MemAddPerformanceRecord(Mem, r, now))
       /\ last_op' = Op("add_performance_record", r, None, NoError)
  /\ UNCHANGED <<now, outside_mem>>

RetrieveRelevant ==
  /\ Step
  /\ \E q \in Queries, k \in TopKs :
       LET r == MemRetrieveRelevant(Mem, q, k, now)
       IN  /\ SetMem(r.m)
           /\ last_op' = Op("retrieve_relevant", [query |-> q, top_k |-> k], r.result, NoError)
  /\ UNCHANGED <<now, outside_mem>>

ApplyForgettingCurve ==
  /\ Step
  /\ LET r == MemApplyForgettingCurve(Mem, now)
     IN  /\ SetMem(r.m)
         /\ last_op' = Op("apply_forgetting_curve", None, None,
                           IF r.raised THEN "RuntimeError" ELSE NoError)
  /\ UNCHANGED <<now, outside_mem>>

\* time passes between operations
Tick ==
  /\ now + TickHours <= MaxClock
  /\ now' = now + TickHours
  /\ last_op' = Op("tick", None, None, NoError)
  /\ UNCHANGED <<mem_vars_but_now, steps, outside_mem>>

NextMem ==
  \/ AddShortTerm
  \/ AddEpisode
  \/ AddReflection
  \/ AddPerformanceRecord
  \/ RetrieveRelevant
  \/ ApplyForgettingCurve
  \/ Tick

SpecMem == InitMem /\ [][NextMem]_vars

-----------------------------------------------------------------------------
(* The curriculum tracker driven through its public operations *)
UnknownTaskId == "ui_components_417"    \* f"{task_category}_{hash(task) % 1000}"

\* the ids attempts are recorded for: the head of the prerequisite chain and
\* an id that is not in the catalog
TaskIdInputs == {"simple_button", "basic_form", "todo_list", UnknownTaskId}

\* (success, quality_score) of an attempt
Outcomes == { <<TRUE, 100>>, <<FALSE, 80>>, <<TRUE, 60>> }

MaxTasksInputs == 0..3

\* the tracker as one value
Cur ==
  [ mastery_levels |-> mastery_levels, mastery_keys |-> mastery_keys,
    current_focus_areas |-> current_focus_areas, attempt_log |-> attempt_log ]

EmptyCur ==
  [ mastery_levels |-> EmptyDict, mastery_keys |-> <<>>, current_focus_areas |-> <<>>,
    attempt_log |-> EmptyDict ]

\* record_task_attempt: [c |-> the tracker afterwards, raised |-> the exception]
CurRecordTaskAttempt(c, task_id, success, quality_score) ==
  LET ml == RecordedMastery(c.mastery_levels, task_id, success, quality_score)
      keys == IF task_id \in DOMAIN c.mastery_levels THEN c.mastery_keys
              ELSE Append(c.mastery_keys, task_id)
      f == UpdateFocusAreas(ml, keys)
      old_log == IF task_id \in DOMAIN c.attempt_log THEN c.attempt_log[task_id] ELSE <<>>
  IN  [ c |-> [ mastery_levels |-> ml, mastery_keys |-> keys,
                current_focus_areas |-> f.areas,
                attempt_log |-> [k \in DOMAIN c.attempt_log \cup {task_id} |->
                                   IF k = task_id
                                   THEN Append(old_log, <<success, quality_score>>)
                                   ELSE c.attempt_log[k]] ],
        raised |-> f.raised ]

\* the tracker after three perfect attempts on each of the first n catalog tasks
RECURSIVE MasteredPrefix(_, _)
MasteredPrefix(n, k) ==
  IF n = 0 THEN EmptyCur
  ELSE IF k = 0 THEN MasteredPrefix(n - 1, MasteryMinAttempts)
  ELSE CurRecordTaskAttempt(MasteredPrefix(n, k - 1), Curriculum[n].id, TRUE, 100).c

\* the tracker after the first task is mastered and the second has had three
\* successful attempts of quality 60
Mediocre ==
  LET a == CurRecordTaskAttempt(MasteredPrefix(1, MasteryMinAttempts),
                                Curriculum[2].id, TRUE, 60).c
      b == CurRecordTaskAttempt(a, Curriculum[2].id, TRUE, 60).c
  IN  CurRecordTaskAttempt(b, Curriculum[2].id, TRUE, 60).c

\* the tracker after the first task and then the third, a level-2 task, are
\* mastered: record_task_attempt does not ask for prerequisites
SkippedAhead ==
  LET a == CurRecordTaskAttempt(MasteredPrefix(1, MasteryMinAttempts),
                                Curriculum[3].id, TRUE, 100).c
      b == CurRecordTaskAttempt(a, Curriculum[3].id, TRUE, 100).c
  IN  CurRecordTaskAttempt(b, Curriculum[3].id, TRUE, 100).c

InitialTrackers ==
  { EmptyCur, Mediocre, MasteredPrefix(3, MasteryMinAttempts), SkippedAhead }

\* the tracker's operations keep no record of the operation before
CurOp(name, arg, result, raised) ==
  [ op |-> name, arg |-> arg, result |-> result, raised |-> raised, prev |-> "init" ]

InitCur ==
  /\ \E c \in InitialTrackers :
       /\ mastery_levels = c.mastery_levels
       /\ mastery_keys = c.mastery_keys
       /\ current_focus_areas = c.current_focus_areas
       /\ attempt_log = c.attempt_log
  /\ last_op = NoOp
  /\ steps = 0
  /\ InitMemIdle
  /\ InitLoopIdle
  /\ InitMetaIdle
  /\ InitManagerIdle
  /\ InitAdvancedIdle

RecordTaskAttempt ==
  /\ steps < MaxAttempts
  /\ steps' = steps + 1
  /\ \E task_id \in TaskIdInputs, o \in Outcomes :
       LET r == CurRecordTaskAttempt(Cur, task_id, o[1], o[2])
       IN  /\ mastery_levels' = r.c.mastery_levels
           /\ mastery_keys' = r.c.mastery_keys
           /\ current_focus_areas' = r.c.current_focus_areas
           /\ attempt_log' = r.c.attempt_log
           /\ last_op' = CurOp("record_task_attempt",
                               [task_id |-> task_id, success |-> o[1], quality_score |-> o[2]],
                               None, r.raised)
  /\ UNCHANGED outside_cur

\* one outcome of a recent_performance list
Perf(success, quality_score) == [ success |-> success, quality_score |-> quality_score ]

Repeat(x, n) == [i \in 1..n |-> x]

RecentPerformances ==
  { <<>>,
    Repeat(Perf(TRUE, 90), 5),
    <<Perf(FALSE, 0)>> \o Repeat(Perf(TRUE, 90), 5),
    <<Perf(FALSE, 90)>> \o Repeat(Perf(TRUE, 90), 4),
    Repeat(Perf(FALSE, 50), 5),
    Repeat(Perf(TRUE, 50), 5),
    Repeat(Perf(FALSE, 90), 3) \o Repeat(Perf(TRUE, 90), 2),
    <<Perf(TRUE, 100), Perf(FALSE, 50)>> }

GetAdaptiveTaskSuggestion ==
  /\ \E recent_performance \in RecentPerformances :
       LET r == AdaptiveTaskSuggestion(mastery_levels, mastery_keys, recent_performance)
       IN  last_op' = CurOp("get_adaptive_task_suggestion",
                            [recent_performance |-> recent_performance],
                            r.suggestion, r.raised)
  /\ UNCHANGED <<cur_vars, steps, outside_cur>>

GetNextRecommendedTasks ==
  /\ \E max_tasks \in MaxTasksInputs :
       last_op' = CurOp("get_next_recommended_tasks", [max_tasks |-> max_tasks],
                        NextRecommendedTasks(mastery_levels, max_tasks), NoError)
  /\ UNCHANGED <<cur_vars, steps, outside_cur>>

NextCur ==
  \/ RecordTaskAttempt
  \/ GetNextRecommendedTasks
  \/ GetAdaptiveTaskSuggestion

SpecCur == InitCur /\ [][NextCur]_vars

(* The curriculum followed from its start: every attempt is made on the first
   recommended task and succeeds *)
\* the qualities of the attempts; the attempts on one task share a quality
ProgressQualities == {MasteryMinAverage, 100}

\* get_next_recommended_tasks() with its default max_tasks
Recommended == NextRecommendedTasks(mastery_levels, 3)

AttemptRecommended ==
  /\ Recommended # <<>>
  /\ \E quality_score \in ProgressQualities :
     \E task_id \in {Recommended[1].id} :
       /\ task_id \in DOMAIN mastery_levels
            => quality_score = mastery_levels[task_id].best_score
       /\ \E r \in {CurRecordTaskAttempt(Cur, task_id, TRUE, quality_score)} :
            /\ mastery_levels' = r.c.mastery_levels
            /\ mastery_keys' = r.c.mastery_keys
            /\ current_focus_areas' = r.c.current_focus_areas
            /\ attempt_log' = r.c.attempt_log
            /\ last_op' = CurOp("record_task_attempt",
                                [ task_id |-> task_id, success |-> TRUE,
                                  quality_score |-> quality_score ],
                                None, r.raised)
  /\ UNCHANGED <<steps, outside_cur>>

NextProgress ==
  \/ AttemptRecommended

InitProgress ==
  /\ InitCurIdle
  /\ last_op = NoOp
  /\ steps = 0
  /\ InitMemIdle
  /\ InitLoopIdle
  /\ InitMetaIdle
  /\ InitManagerIdle
  /\ InitAdvancedIdle

\* attempts keep being made for as long as a task is recommended
SpecProgress == InitProgress /\ [][NextProgress]_vars /\ WF_vars(AttemptRecommended)

-----------------------------------------------------------------------------
(* reflexion_loop and recursive_self_improvement, one action per resumption
   of the coroutine: from the answer of the awaited call to the next await,
   or to the return of the entry point *)
ButtonTask == <<"create", "a", "simple", "button", "with", "hover", "effects">>
TodoTask == <<"todo", "list">>

LoopTasks == {ButtonTask, TodoTask}

MaxIterationsInputs == {0, 1, CycleMaxIterations}

\* what evaluation.get('overall_score', 0) and evaluation.get('verdict') read
\* from a parsed evaluation; score 0 is also the evaluation without a score
Evaluation(score, verdict) == [score |-> score, verdict |-> verdict]

Evaluations ==
  { Evaluation(0, "needs_improvement"), Evaluation(80, "needs_improvement"),
    Evaluation(95, "needs_improvement"), Evaluation(0, "pass"), Evaluation(90, "pass") }

\* an answer that does not parse, a call that fails
Failures == {"malformed", "unavailable"}

ErrorOf(failure) == IF failure = "malformed" THEN "JSONDecodeError" ELSE "ExternalError"

\* _categorize_task
CategoryKeywords ==
  << [category |-> "ui_components", words |-> {"button", "form", "input", "ui", "component"}],
     [category |-> "data_visualization",
      words |-> {"chart", "graph", "data", "visualization", "dashboard"}],
     [category |-> "interactive_apps",
      words |-> {"todo", "app", "interactive", "game", "calculator"}],
     [category |-> "algorithms", words |-> {"algorithm", "sort", "search", "optimization"}],
     [category |-> "full_stack", words |-> {"api", "backend", "database", "server"}] >>

RECURSIVE CategorizeFrom(_, _)
CategorizeFrom(task, i) ==
  IF i > Len(CategoryKeywords) THEN "general"
  ELSE IF \E w \in CategoryKeywords[i].words : Contains(task, w)
       THEN CategoryKeywords[i].category
       ELSE CategorizeFrom(task, i + 1)

Categorize(task) == CategorizeFrom(task, 1)

\* an exception leaves reflexion_loop, and the controller, at the await
AbortRecordsFailure(error) ==
  /\ SetMem(MemAddPerformanceRecord(
              Mem, PerfRecord(loop.task, Some(loop.best_score), None,
                              Some(Len(loop.iteration_log)), FALSE), now))
  /\ pc' = "idle"
  /\ outcome' = [outcome EXCEPT !.status = "raised", !.raised = error]
  /\ UNCHANGED <<now, loop, calls>>

Abort(error) ==
  /\ pc' = "idle"
  /\ outcome' = [outcome EXCEPT !.status = "raised", !.raised = error]
  /\ UNCHANGED <<mem_vars, loop, calls>>

\* the entry point returns or raises with r == AfterLoop(...); o is the run
Leave(r, l, o) ==
  /\ SetMem(r.m)
  /\ pc' = "idle"
  /\ loop' = l
  /\ outcome' = [o EXCEPT !.status = IF r.raised = NoError THEN "returned" ELSE "raised",
                          !.raised = r.raised, !.result = r.result]
  /\ UNCHANGED now

\* the top of reflexion_loop: with no iteration to run it falls through to the
\* return; otherwise actor_generate retrieves memories and awaits the generator
Enter(l, o, cycle) ==
  IF l.max_iterations <= 0
  THEN /\ Leave(AfterLoop(Mem, l, now, mastery_levels, mastery_keys, cycle), l, o)
       /\ calls' = <<>>
  ELSE /\ SetMem(MemRetrieveRelevant(Mem, l.task, ActorTopK, now).m)
       /\ loop' = l
       /\ calls' = << Call("generate", 1, None) >>
       /\ pc' = "generate"
       /\ outcome' = o
       /\ UNCHANGED now

Running(op) ==
  [NoOutcome EXCEPT !.op = op, !.status = "running", !.before = Some(Snapshot)]

StartLoop ==
  /\ pc = "idle"
  /\ steps < MaxRuns
  /\ steps' = steps + 1
  /\ \E task \in LoopTasks, max_iterations \in MaxIterationsInputs :
       Enter(NewLocals(task, max_iterations, "reflexion_loop"),
             Running("reflexion_loop"), improvement_cycle_count)
  /\ UNCHANGED <<last_op, improvement_cycle_count, outside_loop>>

\* recursive_self_improvement up to its first await that suspends.  The
\* recommended strategy (the best-scoring one or, with probability
\* exploration_rate, any one) only feeds the generator's prompt and changes no
\* state; _get_current_difficulty_level may raise
BeginCycle ==
  /\ improvement_cycle_count' = improvement_cycle_count + 1
  /\ \E task \in LoopTasks :
       LET level == CurrentDifficultyLevel(mastery_levels, mastery_keys)
           o == Running("recursive_self_improvement")
       IN  IF level.raised # NoError
           THEN /\ pc' = "idle"
                /\ outcome' = [o EXCEPT !.status = "raised", !.raised = level.raised]
                /\ UNCHANGED <<mem_vars, loop, calls>>
           ELSE Enter(NewLocals(task, CycleMaxIterations, "recursive_self_improvement"),
                      o, improvement_cycle_count + 1)
  /\ UNCHANGED <<last_op, cur_vars, meta_vars, mgr_vars, advanced>>

\* a request handled while no other is in progress
StartCycle ==
  /\ pc = "idle"
  /\ steps < MaxRuns
  /\ steps' = steps + 1
  /\ BeginCycle
  /\ UNCHANGED parked

\* the coroutine the event loop is about to resume, as one value
Coroutine == [pc |-> pc, loop |-> loop, calls |-> calls, outcome |-> outcome]

\* self_improving_generate is an `async def` endpoint on one event loop and the
\* engine is a module-level object: while a request's cycle is suspended at an
\* external call, the event loop starts the handler of a second request
SecondRequestArrives ==
  /\ pc # "idle"
  /\ parked = None
  /\ parked' = Some(Coroutine)
  /\ BeginCycle
  /\ UNCHANGED steps

\* the event loop resumes the other coroutine: its awaited call has returned
OtherResumes ==
  /\ parked # None
  /\ The(parked).pc # "idle"
  /\ pc' = The(parked).pc
  /\ loop' = The(parked).loop
  /\ calls' = The(parked).calls
  /\ outcome' = The(parked).outcome
  /\ parked' = Some(Coroutine)
  /\ UNCHANGED <<mem_vars, last_op, steps, improvement_cycle_count, cur_vars, meta_vars,
                 mgr_vars, advanced>>

\* actor_generate resumes with the generator's answer, then evaluator_assess
\* awaits the evaluator
GenerateReturns ==
  /\ pc = "generate"
  /\ \/ \E failure \in Failures : Abort(ErrorOf(failure))
     \/ /\ SetMem(AfterGenerate(Mem, loop.task, now))
        /\ loop' = [loop EXCEPT !.solution = Some(loop.iteration + 1)]
        /\ calls' = Append(calls, Call("evaluate", loop.iteration + 1,
                                       Some(loop.iteration + 1)))
        /\ pc' = "evaluate"
        /\ UNCHANGED <<now, outcome>>
  /\ UNCHANGED <<last_op, steps, improvement_cycle_count, outside_loop>>

\* improve_solution resumes with the improver's answer
ImproveReturns ==
  /\ pc = "improve"
  /\ \/ \E failure \in Failures : Abort(ErrorOf(failure))
     \/ /\ loop' = [loop EXCEPT !.solution = Some(loop.iteration + 1)]
        /\ calls' = Append(calls, Call("evaluate", loop.iteration + 1,
                                       Some(loop.iteration + 1)))
        /\ pc' = "evaluate"
        /\ UNCHANGED <<mem_vars, outcome>>
  /\ UNCHANGED <<last_op, steps, improvement_cycle_count, outside_loop>>

\* evaluator_assess resumes with the evaluator's answer; the loop tracks the
\* best solution; self_reflect awaits the reflector
EvaluateReturns ==
  /\ pc = "evaluate"
  /\ \/ \E failure \in Failures : Abort(ErrorOf(failure))
     \/ \E evaluation \in Evaluations :
          /\ SetMem(AfterEvaluate(Mem, loop.task, now))
          /\ loop' = [loop EXCEPT
                        !.evaluation = Some(evaluation),
                        !.best_score = IF Better(evaluation.score, @)
                                       THEN evaluation.score ELSE @,
                        !.best_solution = IF Better(evaluation.score, loop.best_score)
                                          THEN loop.solution ELSE @]
          /\ calls' = Append(calls, Call("reflect", loop.iteration + 1,
                                         Some([solution |-> loop.solution,
                                               evaluation |-> evaluation])))
          /\ pc' = "reflect"
          /\ UNCHANGED <<now, outcome>>
  /\ UNCHANGED <<last_op, steps, improvement_cycle_count, outside_loop>>

\* self_reflect resumes with the reflector's answer; the loop logs the
\* iteration and stores the episode, then breaks, runs out of iterations, or
\* goes on to improve_solution
ReflectReturns ==
  /\ pc = "reflect"
  /\ \/ \E failure \in Failures : Abort(ErrorOf(failure))
     \/ LET evaluation == The(loop.evaluation)
            score == evaluation.score
            m2 == AfterReflect(Mem, loop.task, score, now)
            l1 == [loop EXCEPT !.iteration_log =
                      Append(@, [ iteration |-> loop.iteration + 1, score |-> score,
                                  verdict |-> evaluation.verdict ])]
        IN  IF Excellent(score, evaluation.verdict) \/ Exhausted(loop.iteration, loop.max_iterations)
            THEN /\ Leave(AfterLoop(m2, l1, now, mastery_levels, mastery_keys,
                                    improvement_cycle_count), l1, outcome)
                 /\ UNCHANGED calls
            ELSE /\ SetMem(m2)
                 /\ loop' = [l1 EXCEPT !.iteration = @ + 1,
                                       !.prev = Some([ solution |-> loop.solution,
                                                       evaluation |-> evaluation,
                                                       reflection |-> loop.iteration + 1 ])]
                 /\ calls' = Append(calls, Call("improve", loop.iteration + 2,
                                                Some([ solution |-> loop.solution,
                                                       evaluation |-> evaluation,
                                                       reflection |-> loop.iteration + 1 ])))
                 /\ pc' = "improve"
                 /\ UNCHANGED <<now, outcome>>
  /\ UNCHANGED <<last_op, steps, improvement_cycle_count, outside_loop>>

\* the clock advances between runs and while the evaluator is awaited
Elapse == pc \in {"idle", "evaluate"} /\ Tick

NextLoop ==
  \/ StartLoop
  \/ GenerateReturns
  \/ ImproveReturns
  \/ EvaluateReturns
  \/ ReflectReturns
  \/ Elapse

\* the memory after n earlier runs on the button task at time 0, each ended
\* by its first evaluation: score 90, verdict pass
RECURSIVE Seasoned(_)
Seasoned(n) ==
  IF n = 0 THEN EmptyMem
  ELSE LET l == [NewLocals(ButtonTask, CycleMaxIterations, "reflexion_loop") EXCEPT
                   !.best_score = 90, !.best_solution = Some(1),
                   !.iteration_log = << [iteration |-> 1, score |-> 90, verdict |-> "pass"] >>]
           m0 == MemRetrieveRelevant(Seasoned(n - 1), ButtonTask, ActorTopK, 0).m
           m1 == AfterReflect(AfterEvaluate(AfterGenerate(m0, ButtonTask, 0), ButtonTask, 0),
                              ButtonTask, 90, 0)
       IN  AfterLoop(m1, l, 0, EmptyDict, <<>>, n).m

\* a new memory, or one that holds four runs' records
EarlierRuns == {0, TrajectoryMinLen - 1}

InitRuns(counted) ==
  /\ \E n \in EarlierRuns :
       /\ short_term = Seasoned(n).short_term
       /\ mid_term = Seasoned(n).mid_term
       /\ long_term = Seasoned(n).long_term
       /\ reflective = Seasoned(n).reflective
       /\ performance_history = Seasoned(n).performance_history
       /\ next_id = Seasoned(n).next_id
       /\ improvement_cycle_count = IF counted THEN n ELSE 0
  /\ now = 0
  /\ pc = "idle"
  /\ loop = None
  /\ calls = <<>>
  /\ outcome = NoOutcome
  /\ parked = None
  /\ InitCurIdle
  /\ InitMetaIdle
  /\ InitManagerIdle
  /\ InitAdvancedIdle
  /\ last_op = NoOp
  /\ steps = 0

\* ReflexionFramework(memory)
InitLoop == InitRuns(FALSE)

SpecLoop == InitLoop /\ [][NextLoop]_vars

\* the runs alone, the clock standing still: the loop's control flow reads no time
NextLoopUntimed ==
  \/ StartLoop
  \/ GenerateReturns
  \/ ImproveReturns
  \/ EvaluateReturns
  \/ ReflectReturns

\* ... where every awaited external call returns and the coroutine is resumed
SpecLoopFair ==
  /\ InitLoop
  /\ [][NextLoopUntimed]_vars
  /\ WF_vars(GenerateReturns)
  /\ WF_vars(ImproveReturns)
  /\ WF_vars(EvaluateReturns)
  /\ WF_vars(ReflectReturns)

NextEngine ==
  \/ StartCycle
  \/ GenerateReturns
  \/ ImproveReturns
  \/ EvaluateReturns
  \/ ReflectReturns
  \/ Elapse

\* SelfImprovementEngine()
InitEngine == InitRuns(TRUE)

SpecEngine == InitEngine /\ [][NextEngine]_vars

\* external calls issued so far by the requests in progress
CallsIssued == Len(calls) + (IF parked = None THEN 0 ELSE Len(The(parked).calls))

\* two requests on the shared engine, the clock standing still
NextShared ==
  \/ StartCycle
  \/ SecondRequestArrives
  \/ OtherResumes
  \/ CallsIssued <= MaxAnswers /\ GenerateReturns
  \/ CallsIssued <= MaxAnswers /\ ImproveReturns
  \/ CallsIssued <= MaxAnswers /\ EvaluateReturns
  \/ CallsIssued <= MaxAnswers /\ ReflectReturns

SpecShared == InitEngine /\ [][NextShared]_vars

-----------------------------------------------------------------------------
(* The strategy selector driven through its public operations *)
\* the values _categorize_task returns
Domains ==
  { CategoryKeywords[i].category : i \in 1..Len(CategoryKeywords) } \cup {"general"}

MetaStrategyInputs == {"exploration", "transfer"}
MetaDomainInputs == {"ui_components", "general"}

\* (success, quality) of an outcome
MetaOutcomes == { <<TRUE, 100>>, <<TRUE, 60>>, <<FALSE, 0>> }

\* the experience learn_from_generation builds for a result without
\* 'approach' and 'time_taken'
ExperienceOf(strategy, domain, success, quality, t) ==
  LearningExperience(strategy, domain, 44, "unknown", quality, 0, success, t)

\* the engine after n perfect exploration outcomes in ui_components
RECURSIVE Experienced(_)
Experienced(n) ==
  IF n = 0 THEN NewMeta
  ELSE MetaRecordLearningOutcome(Experienced(n - 1),
                                 ExperienceOf("exploration", "ui_components", TRUE, 100, 0),
                                 TRUE).me

\* the engine after n failed exploration outcomes in ui_components
RECURSIVE Discouraged(_)
Discouraged(n) ==
  IF n = 0 THEN NewMeta
  ELSE MetaRecordLearningOutcome(Discouraged(n - 1),
                                 ExperienceOf("exploration", "ui_components", FALSE, 0, 0),
                                 TRUE).me

\* a new engine, one that is one experience short of adapting its parameters,
\* one whose exploration_rate is one step below its cap, and one whose
\* explorations have all failed
InitialMetas ==
  { NewMeta, Experienced(AdaptMinExperiences - 1), Experienced(AdaptMinExperiences + 4),
    Discouraged(AdaptMinExperiences - 1) }

InitMeta ==
  /\ \E me \in InitialMetas :
       /\ learning_experiences = me.learning_experiences
       /\ strategy_effectiveness = me.strategy_effectiveness
       /\ adaptive_parameters = me.adaptive_parameters
       /\ domain_similarities = me.domain_similarities
  /\ InitMemIdle
  /\ InitCurIdle
  /\ InitLoopIdle
  /\ InitManagerIdle
  /\ InitAdvancedIdle
  /\ last_op = NoOp
  /\ steps = 0

RecordLearningOutcome ==
  /\ steps < MaxOutcomes
  /\ steps' = steps + 1
  /\ \E strategy \in MetaStrategyInputs, domain \in MetaDomainInputs, o \in MetaOutcomes,
        running_loop \in BOOLEAN :
       LET r == MetaRecordLearningOutcome(
                  Meta, ExperienceOf(strategy, domain, o[1], o[2], now), running_loop)
       IN  /\ learning_experiences' = r.me.learning_experiences
           /\ strategy_effectiveness' = r.me.strategy_effectiveness
           /\ adaptive_parameters' = r.me.adaptive_parameters
           /\ domain_similarities' = r.me.domain_similarities
           /\ background' = IF r.raised = NoError THEN Append(background, SimilarityTask)
                            ELSE background
           /\ last_op' = CurOp("record_learning_outcome",
                               [ strategy |-> strategy, domain |-> domain, success |-> o[1],
                                 quality |-> o[2], running_loop |-> running_loop ],
                               None, r.raised)
  /\ UNCHANGED <<mem_vars, cur_vars, loop_vars, improvement_cycle_count, manager, advanced>>

\* the event loop runs the oldest scheduled _update_domain_similarities task
UpdateDomainSimilarities ==
  /\ \E i \in 1..Len(background) :
       /\ background[i].status = "scheduled"
       /\ \A j \in 1..(i - 1) : background[j].status # "scheduled"
       /\ LET r == MetaUpdateDomainSimilarities(Meta)
          IN  /\ domain_similarities' = r.me.domain_similarities
              /\ background' = [background EXCEPT ![i].status = "finished",
                                                  ![i].ended = Some(r.caught)]
              /\ last_op' = CurOp("_update_domain_similarities", None, None, NoError)
  /\ UNCHANGED <<learning_experiences, strategy_effectiveness, adaptive_parameters, steps,
                 mem_vars, cur_vars, loop_vars, improvement_cycle_count, manager, advanced>>

\* recommend_learning_strategy: the base scores it reads; the strategy it then
\* selects is the best-scoring one or, with probability exploration_rate, any
RecommendLearningStrategy ==
  /\ \E task_domain \in MetaDomainInputs :
       last_op' = CurOp("recommend_learning_strategy", [task_domain |-> task_domain],
                        DomainStrategyEffectiveness(strategy_effectiveness, task_domain),
                        NoError)
  /\ UNCHANGED <<meta_vars, steps, outside_meta>>

NextMeta ==
  \/ RecordLearningOutcome
  \/ UpdateDomainSimilarities
  \/ RecommendLearningStrategy

SpecMeta == InitMeta /\ [][NextMeta]_vars

(* The strategy selector with its experience log at capacity *)
\* the experiences that can be the oldest of a full log
OldestInputs ==
  { ExperienceOf("exploration", "general", TRUE, 100, 0),
    ExperienceOf("transfer", "general", FALSE, 0, 0),
    ExperienceOf("exploration", "ui_components", TRUE, 60, 0) }

\* a log at capacity: oldest followed by perfect exploration outcomes in
\* ui_components
FullLog(oldest) ==
  <<oldest>> \o [i \in 1..(ExperiencesMaxLen - 1) |->
                  ExperienceOf("exploration", "ui_components", TRUE, 100, 0)]

\* the adaptive parameters after the first n experiences of log were recorded
\* one by one: record_learning_outcome calls _adapt_parameters once per outcome
RECURSIVE ParametersAfter(_, _)
ParametersAfter(log, n) ==
  IF n = 0 THEN NewMeta.adaptive_parameters
  ELSE AdaptParameters(FirstN(log, n), ParametersAfter(log, n - 1))

\* the engine after recording FullLog(oldest) one by one.  The record of
\* oldest's key was last written with oldest alone in the log unless later
\* outcomes share the key; from AdaptWindow + 1 outcomes on, oldest has left
\* the window _adapt_parameters reads and the parameters no longer change
AtCapacity(oldest) ==
  LET log == FullLog(oldest)
      min_samples == NewMeta.adaptive_parameters.min_samples_for_confidence
      first == UpdateStrategyEffectiveness(<<oldest>>, EmptyDict, oldest.strategy_used,
                                           oldest.task_domain, min_samples, 0)
  IN  [ learning_experiences |-> log,
        strategy_effectiveness |->
          UpdateStrategyEffectiveness(log, first, "exploration", "ui_components",
                                      min_samples, 0),
        adaptive_parameters |-> ParametersAfter(log, AdaptWindow + 1),
        domain_similarities |-> EmptyDict ]

InitEvict ==
  /\ \E oldest \in OldestInputs :
       LET me == AtCapacity(oldest)
       IN  /\ learning_experiences = me.learning_experiences
           /\ strategy_effectiveness = me.strategy_effectiveness
           /\ adaptive_parameters = me.adaptive_parameters
           /\ domain_similarities = me.domain_similarities
  /\ InitMemIdle
  /\ InitCurIdle
  /\ InitLoopIdle
  /\ InitManagerIdle
  /\ InitAdvancedIdle
  /\ last_op = NoOp
  /\ steps = 0

NextEvict ==
  \/ steps < MaxEvictions /\ RecordLearningOutcome
  \/ UpdateDomainSimilarities
  \/ RecommendLearningStrategy

SpecEvict == InitEvict /\ [][NextEvict]_vars

-----------------------------------------------------------------------------
(* deep_reflection_cycle, one action per resumption, next to the strategy
   selector's record_learning_outcome and the task it leaves to the event loop *)

\* performance_data as learn_from_generation builds it; api_key: whether
\* GEMINI_API_KEY is configured
PerformanceInputs ==
  { [ quality_score |-> 60, success |-> TRUE, time_taken |-> 10, api_key |-> TRUE ],
    [ quality_score |-> 60, success |-> TRUE, time_taken |-> 40, api_key |-> FALSE ],
    [ quality_score |-> 90, success |-> FALSE, time_taken |-> 40, api_key |-> TRUE ],
    [ quality_score |-> 90, success |-> FALSE, time_taken |-> 10, api_key |-> FALSE ] }

CausalAnswers ==
  { Parsed(50, FALSE), Parsed(65, FALSE), Parsed(90, FALSE),
    Failed("malformed"), Failed("unavailable") }

CounterfactualAnswers ==
  { Parsed(0, TRUE), Parsed(0, FALSE), Failed("malformed"), Failed("unavailable") }

\* deep_reflection_cycle returns: it stores the confident insights
EndReflection(insights) ==
  /\ SetMem(StoreInsights(Mem, HighConfidence(insights), now))
  /\ advanced' = AfterDeepReflection(advanced, insights)
  /\ UNCHANGED now

\* deep_reflection_cycle up to its first suspension
StartReflection ==
  /\ advanced.pc = "idle"
  /\ steps < MaxReflections
  /\ steps' = steps + 1
  /\ \E performance_data \in PerformanceInputs :
       LET insights ==
             TacticalReflection(performance_data)
             \o StrategicReflection(performance_history)
             \o (IF advanced.meta_learning_cycles > MetaReflectionAfter
                 THEN MetaLearningReflection(advanced.reflection_history) ELSE <<>>)
       IN  /\ last_op' = CurOp("deep_reflection_cycle", performance_data, None, NoError)
           /\ IF performance_data.api_key
              THEN /\ advanced' = [advanced EXCEPT !.pc = "causal", !.insights = insights,
                                     !.performance_data = Some(performance_data),
                                     !.result = None]
                   /\ UNCHANGED mem_vars
              ELSE EndReflection(insights)
  /\ UNCHANGED <<cur_vars, loop_vars, improvement_cycle_count, meta_vars, mgr_vars>>

\* _causal_analysis resumes with the model's answer or its failure
CausalReturns ==
  /\ advanced.pc = "causal"
  /\ \E answer \in CausalAnswers :
       LET insights == advanced.insights \o CausalInsights(answer)
       IN  /\ last_op' = CurOp("_causal_analysis", answer, None, NoError)
           /\ IF ~The(advanced.performance_data).success
              THEN /\ advanced' = [advanced EXCEPT !.pc = "counterfactual",
                                                   !.insights = insights]
                   /\ UNCHANGED mem_vars
              ELSE EndReflection(insights)
  /\ UNCHANGED <<steps, cur_vars, loop_vars, improvement_cycle_count, meta_vars, mgr_vars>>

\* _counterfactual_analysis resumes with the model's answer or its failure
CounterfactualReturns ==
  /\ advanced.pc = "counterfactual"
  /\ \E answer \in CounterfactualAnswers :
       /\ last_op' = CurOp("_counterfactual_analysis", answer, None, NoError)
       /\ EndReflection(advanced.insights \o CounterfactualInsights(answer))
  /\ UNCHANGED <<steps, cur_vars, loop_vars, improvement_cycle_count, meta_vars, mgr_vars>>

NextReflect ==
  \/ StartReflection
  \/ CausalReturns
  \/ CounterfactualReturns
  \/ RecordLearningOutcome
  \/ UpdateDomainSimilarities

\* a run of ten records whose scores rise, as reflexion_loop's callers keep it
RECURSIVE RisingHistory(_)
RisingHistory(n) ==
  IF n = 0 THEN EmptyMem
  ELSE MemAddPerformanceRecord(RisingHistory(n - 1),
                               PerfRecord(<<"button">>, None, Some(50 + 5 * n), None, TRUE), 0)

\* the seasoned framework: six cycles, each having kept two tactical insights
RECURSIVE SeasonedAdvanced(_)
SeasonedAdvanced(n) ==
  IF n = 0 THEN NewAdvanced
  ELSE AfterDeepReflection(SeasonedAdvanced(n - 1),
                           TacticalReflection([ quality_score |-> 60, success |-> TRUE,
                                                time_taken |-> 40, api_key |-> FALSE ]))

InitReflect ==
  /\ \E seasoned \in BOOLEAN :
       /\ advanced = IF seasoned THEN SeasonedAdvanced(MetaReflectionAfter + 1)
                     ELSE NewAdvanced
       /\ LET m == IF seasoned
                   THEN StoreInsights(RisingHistory(StrategicHistoryLen),
                                      advanced.reflection_history, 0)
                   ELSE EmptyMem
          IN  /\ short_term = m.short_term
              /\ mid_term = m.mid_term
              /\ long_term = m.long_term
              /\ reflective = m.reflective
              /\ performance_history = m.performance_history
              /\ next_id = m.next_id
       /\ LET me == IF seasoned THEN Experienced(AdaptMinExperiences - 1) ELSE NewMeta
          IN  /\ learning_experiences = me.learning_experiences
              /\ strategy_effectiveness = me.strategy_effectiveness
              /\ adaptive_parameters = me.adaptive_parameters
              /\ domain_similarities = me.domain_similarities
  /\ now = 0
  /\ last_op = NoOp
  /\ steps = 0
  /\ InitCurIdle
  /\ InitLoopIdle
  /\ InitManagerIdle

SpecReflect == InitReflect /\ [][NextReflect]_vars

-----------------------------------------------------------------------------
(* The manager's workflow, one action per resumption of _orchestrate_generation,
   and the background tasks it leaves to the event loop *)
Descriptions == {"button", "todo"}

\* a sub-agent's A2AResponse: a result, or an error
AgentAnswers == {"result", "error"}

\* how the analyzer's process_message ends: with a result, with an error
\* response, or by an exception
AnalyzerOutcomes == {"result", "error", "raised"}

InternalError == "-32603"

\* process_message calls _orchestrate_generation, which awaits the generator
StartOrchestration ==
  /\ manager.pc = "idle"
  /\ steps < MaxRequests
  /\ steps' = steps + 1
  /\ \E description \in Descriptions, auto_review \in BOOLEAN :
       manager' = [NewManager EXCEPT
                     !.pc = "generate", !.description = Some(description),
                     !.auto_review = auto_review,
                     !.workflow_log = << LogEntry("code_generation", "starting") >>]
  /\ UNCHANGED <<background, last_op, outside_mgr>>

\* step 3 and the return: the analysis is handed to the event loop and the
\* result goes back to the caller
Finish(mgr, review_result) ==
  LET generated_code == The(mgr.generated_code)
  IN  /\ background' = IF generated_code.success
                       THEN ScheduleAnalysis(background, generated_code.files,
                                             The(mgr.description))
                       ELSE background
      /\ manager' = [mgr EXCEPT
                       !.pc = "idle",
                       !.result = Some(OrchestratedResult(generated_code, review_result,
                                                          mgr.workflow_log))]

\* the generator answers
GeneratorResponds ==
  /\ manager.pc = "generate"
  /\ \E answer \in AgentAnswers :
       IF answer = "error"
       THEN /\ manager' = [manager EXCEPT
                             !.pc = "idle",
                             !.result = Some(FailureResult(InternalError,
                                                           manager.workflow_log))]
            /\ UNCHANGED background
       ELSE LET mgr == [manager EXCEPT
                          !.workflow_log = Append(@, LogEntry("code_generation", "completed")),
                          !.generated_code = Some([ success |-> TRUE,
                                                    files |-> The(manager.description) ])]
            IN  IF manager.auto_review
                THEN /\ manager' = [mgr EXCEPT
                                      !.pc = "review",
                                      !.workflow_log =
                                         Append(@, LogEntry("code_review", "starting"))]
                     /\ UNCHANGED background
                ELSE Finish(mgr, None)
  /\ UNCHANGED <<steps, last_op, outside_mgr>>

\* the reviewer answers
ReviewerResponds ==
  /\ manager.pc = "review"
  /\ \E answer \in AgentAnswers :
       IF answer = "error" THEN Finish(manager, None)
       ELSE Finish([manager EXCEPT
                      !.workflow_log = Append(@, LogEntry("code_review", "completed"))],
                   Some("review"))
  /\ UNCHANGED <<steps, last_op, outside_mgr>>

\* the event loop runs a scheduled task up to its await of the analyzer
AnalysisStarts ==
  /\ \E i \in 1..Len(background) :
       /\ background[i].status = "scheduled"
       /\ background' = [background EXCEPT ![i].status = "analyzing"]
  /\ UNCHANGED <<manager, steps, last_op, outside_mgr>>

\* the analyzer answers; `except Exception` prints what was raised
AnalyzerResponds ==
  /\ \E i \in 1..Len(background), ended \in AnalyzerOutcomes :
       /\ background[i].status = "analyzing"
       /\ background' = [background EXCEPT ![i].status = "finished",
                                           ![i].ended = Some(ended)]
  /\ UNCHANGED <<manager, steps, last_op, outside_mgr>>

NextManager ==
  \/ StartOrchestration
  \/ GeneratorResponds
  \/ ReviewerResponds
  \/ AnalysisStarts
  \/ AnalyzerResponds

\* ManagerAgent()
InitManager ==
  /\ InitManagerIdle
  /\ InitAdvancedIdle
  /\ InitMemIdle
  /\ InitCurIdle
  /\ InitLoopIdle
  /\ InitMetaIdle
  /\ last_op = NoOp
  /\ steps = 0

SpecManager == InitManager /\ [][NextManager]_vars

-----------------------------------------------------------------------------
(* Properties of the memory store *)

IdsAscending(tier) == \A i \in 1..Len(tier) - 1 : tier[i].id < tier[i + 1].id

\* C1: the mid-term tier never holds more than 50 entries and keeps them in
\* insertion order; an add_episode on a full tier drops exactly the oldest
\* entry and appends the new one behind the others, which keep their order.
C1_MidTermBoundedOldestFirst ==
  /\ Len(mid_term) <= MidTermMaxLen
  /\ IdsAscending(mid_term)
  /\ [][ /\ Len(mid_term') <= MidTermMaxLen
         /\ IdsAscending(mid_term')
         /\ (last_op'.op = "add_episode" /\ Len(mid_term) = MidTermMaxLen)
              => /\ Len(mid_term') = MidTermMaxLen
                 /\ SubSeq(mid_term', 1, MidTermMaxLen - 1) = Tail(mid_term)
                 /\ Last(mid_term').id = next_id
                 /\ \A i \in 1..Len(mid_term) : mid_term[1].id <= mid_term[i].id
       ]_vars

C1_Witness ==
  /\ last_op.op = "add_episode"
  /\ Len(mid_term) = MidTermMaxLen
  /\ mid_term[1].id = 2
  /\ last_op.prev # "init"

NoTimeElapsed == \A i \in 1..Len(mid_term) : mid_term[i].last_accessed = now

C7_ForgettingIdempotentAtZeroElapsed ==
  [][ (last_op'.op = "apply_forgetting_curve" /\ NoTimeElapsed)
        => /\ mid_term' = mid_term
           /\ last_op'.raised = NoError
    ]_vars

C7_Witness ==
  /\ last_op.op = "apply_forgetting_curve"
  /\ last_op.prev = "apply_forgetting_curve"
  /\ NoTimeElapsed
  /\ \E i \in 1..Len(mid_term) : mid_term[i].retention_strength < RetOne

-----------------------------------------------------------------------------
(* Properties of the curriculum tracker *)

AllTaskIds == CatalogIds \cup TaskIdInputs

LogOf(t) == IF t \in DOMAIN attempt_log THEN attempt_log[t] ELSE <<>>

LogSuccesses(log) == Cardinality({i \in 1..Len(log) : log[i][1]})

RECURSIVE PowerOfTen(_)
PowerOfTen(n) == IF n = 0 THEN 1 ELSE 10 * PowerOfTen(n - 1)

\* the moving average of the logged scores q1..qn, times 10^(n-1): q1 for n = 1,
\* and 0.3 * qn + 0.7 * (the average of q1..q(n-1)) for n > 1
RECURSIVE LogEmaNum(_)
LogEmaNum(log) ==
  IF Len(log) = 1 THEN log[1][2]
  ELSE 3 * Last(log)[2] * PowerOfTen(Len(log) - 2)
       + 7 * LogEmaNum(SubSeq(log, 1, Len(log) - 1))

C4_EmaUpdate ==
  [][ last_op'.op = "record_task_attempt" =>
        LET t == last_op'.arg.task_id
            q == last_op'.arg.quality_score
            new == mastery_levels'[t]
        IN  /\ t \in DOMAIN mastery_levels'
            /\ IF t \notin DOMAIN mastery_levels
               THEN new.avg_num = q /\ new.avg_den = 1
               ELSE LET old == mastery_levels[t]
                    IN  /\ new.avg_den = 10 * old.avg_den
                        /\ new.avg_num = 3 * q * old.avg_den + 7 * old.avg_num
            /\ (attempt_log'[t] = << <<FALSE, 80>>, <<TRUE, 60>> >>
                  => new.avg_num = 74 * new.avg_den)
            /\ \A u \in DOMAIN mastery_levels : u # t => mastery_levels'[u] = mastery_levels[u]
    ]_vars

C4_Witness ==
  /\ last_op.op = "record_task_attempt"
  /\ \E t \in DOMAIN mastery_levels :
       /\ attempt_log[t] = << <<FALSE, 80>>, <<TRUE, 60>> >>
       /\ mastery_levels[t].avg_num = 74 * mastery_levels[t].avg_den

\* C5: get_next_recommended_tasks(max_tasks) returns at most max_tasks catalog
\* tasks, each not mastered and with every prerequisite mastered, in ascending
\* (difficulty, estimated_time) order, and no eligible task that was left out
\* sorts before a returned one.
InCatalog(task) == \E i \in 1..Len(Curriculum) : Curriculum[i] = task

Eligible(task) ==
  /\ ~is_task_mastered(task.id)
  /\ \A i \in 1..Len(task.prerequisites) : is_task_mastered(task.prerequisites[i])

C5_RecommendedTasks ==
  last_op.op = "get_next_recommended_tasks" =>
    LET r == last_op.result
        returned == { r[i] : i \in 1..Len(r) }
    IN  /\ Len(r) <= last_op.arg.max_tasks
        /\ \A i \in 1..Len(r) : InCatalog(r[i]) /\ Eligible(r[i])
        /\ \A i, j \in 1..Len(r) : i < j => TaskBefore(r[i], r[j])
        /\ \A k \in 1..Len(Curriculum) :
             (Eligible(Curriculum[k]) /\ Curriculum[k] \notin returned)
               => \A i \in 1..Len(r) : ~TaskBefore(Curriculum[k], r[i])

C5_Witness ==
  /\ last_op.op = "get_next_recommended_tasks"
  /\ last_op.arg.max_tasks = 1
  /\ Len(last_op.result) = 1
  /\ \E k \in 1..Len(Curriculum) :
       Eligible(Curriculum[k]) /\ Curriculum[k] # last_op.result[1]
  /\ \E k \in 1..Len(Curriculum) :
       ~is_task_mastered(Curriculum[k].id) /\ ~Eligible(Curriculum[k])

-----------------------------------------------------------------------------
(* Properties of the reflexion loop *)
LogNow == IF loop = None THEN <<>> ELSE loop.iteration_log

\* the calls of the current run issued after the evaluate call of iteration k
CallsAfterEvaluate(k) ==
  { i \in 1..Len(calls) :
      \E j \in 1..(i - 1) : calls[j].call = "evaluate" /\ calls[j].iteration = k }

\* C2: the first iteration evaluated with overall_score >= 95 or verdict 'pass'
\* is the last one: once it is logged the run has returned, its log ends with
\* that iteration, and after its evaluate call the only external call issued is
\* its own reflect call; no generate, improve or evaluate call follows.  With
\* max_iterations = 3 and score 95 on iteration 1 the log has exactly 1 entry.
C2_EarlyExit ==
  /\ \A k \in 1..Len(LogNow) :
       (LogNow[k].score >= 95 \/ LogNow[k].verdict = "pass") =>
          /\ k = Len(LogNow)
          /\ pc = "idle"
          /\ outcome.status = "returned"
          /\ Len(calls) = 3 * k
          /\ \A i \in 1..Len(calls) : calls[i].iteration <= k
          /\ \A i \in CallsAfterEvaluate(k) :
               calls[i].call = "reflect" /\ calls[i].iteration = k
  /\ (pc = "reflect" /\ (The(loop.evaluation).score >= 95
                         \/ The(loop.evaluation).verdict = "pass")) =>
        /\ Last(calls).call = "reflect"
        /\ Cardinality(CallsAfterEvaluate(loop.iteration + 1)) = 1
  /\ (LogNow # <<>> /\ loop.max_iterations = 3 /\ LogNow[1].score = 95) =>
        Len(LogNow) = 1 /\ pc = "idle"

C2_Witness ==
  /\ pc = "idle"
  /\ outcome.op = "reflexion_loop"
  /\ outcome.status = "returned"
  /\ loop.max_iterations = 3
  /\ LogNow = << [iteration |-> 1, score |-> 95, verdict |-> "needs_improvement"] >>
  /\ Len(calls) = 3

\* the largest score in an iteration log, 0 for an empty one
RECURSIVE MaxScore(_)
MaxScore(log) ==
  IF log = <<>> THEN 0
  ELSE LET rest == MaxScore(Tail(log))
       IN  IF log[1].score >= rest THEN log[1].score ELSE rest

\* a step in which reflexion_loop returns normally
LoopReturns ==
  /\ outcome'.op = "reflexion_loop"
  /\ outcome'.status = "returned"
  /\ pc' = "idle"
  /\ pc # "idle" \/ steps' # steps

\* C10: a reflexion_loop run that terminates normally appends exactly one
\* Performance Record, in the step in which it returns and in no other: the
\* record carries the best score of the run's iterations and success is true
\* exactly when that score is >= 80.
C10_OnePerformanceRecord ==
  [][ /\ LoopReturns =>
           /\ Len(performance_history') = Len(performance_history) + 1
           /\ SubSeq(performance_history', 1, Len(performance_history)) = performance_history
           /\ Len(performance_history') = The(outcome'.before).performance_records + 1
           /\ LET record == Last(performance_history')
                  best == MaxScore(loop'.iteration_log)
              IN  /\ record.task = loop'.task
                  /\ record.final_score = Some(best)
                  /\ record.success = (best >= 80)
                  /\ record.iterations = Some(Len(loop'.iteration_log))
      /\ ~LoopReturns => performance_history' = performance_history
    ]_vars

C10_Witness ==
  /\ pc = "idle"
  /\ steps = 1
  /\ outcome.op = "reflexion_loop"
  /\ outcome.status = "returned"
  /\ LogNow = << [iteration |-> 1, score |-> 90, verdict |-> "pass"] >>
  /\ Len(performance_history) = TrajectoryMinLen
  /\ Last(performance_history).final_score = Some(90)
  /\ Last(performance_history).success = TRUE

-----------------------------------------------------------------------------
(* Properties of the controller *)
\* C9: a completed recursive_self_improvement cycle has fed its outcome back:
\* compared with the start of the cycle the memory holds one more Performance
\* Record, the curriculum tracker one more recorded attempt and the strategy
\* selector's log one more Learning Experience.
C9_CycleFeedsOutcomeBack ==
  (outcome.op = "recursive_self_improvement" /\ outcome.status = "returned") =>
     /\ Len(performance_history) = The(outcome.before).performance_records + 1
     /\ TotalAttempts(mastery_levels, mastery_keys, 1) = The(outcome.before).attempts + 1
     /\ Len(learning_experiences) = The(outcome.before).experiences + 1

-----------------------------------------------------------------------------
(* Properties of the strategy selector *)
NoExperience(strategy, domain) ==
  RelevantExperiences(learning_experiences, strategy, domain) = <<>>

-----------------------------------------------------------------------------
(* Failure semantics of the controller cycle and the reflexion loop *)

\* the exceptions that signal a violated invariant: a task id that is not in
\* the curriculum catalog
InvariantViolations == {"KeyError"}

\* C11: every ended controller cycle returned a result object that carries a
\* success flag and an error field, also when a generate, evaluate, reflect or
\* improve step failed; it raised only for an invariant violation.
C11_CycleAlwaysReturnsResult ==
  outcome.op = "recursive_self_improvement" /\ outcome.status \in {"returned", "raised"} =>
    \/ /\ outcome.status = "returned"
       /\ {"success", "error"} \subseteq DOMAIN The(outcome.result)
    \/ /\ outcome.status = "raised"
       /\ outcome.raised \in InvariantViolations

\* C12: when an external answer of a reflexion iteration does not parse, the
\* run ends there with the parse failure as its outcome: no call is issued and
\* nothing is retried, the failed iteration has no entry in the iteration log
\* and no episode, the performance trajectory is as it was when the run
\* started, and no call follows while that outcome stands.
C12_ParseFailureAborts ==
  [][ /\ (outcome.status = "running" /\ outcome'.raised = "JSONDecodeError") =>
           /\ pc' = "idle"
           /\ outcome'.status = "raised"
           /\ outcome'.result = None
           /\ calls' = calls
           /\ loop' = loop
           /\ Len(loop.iteration_log) = loop.iteration
           /\ mid_term' = mid_term
           /\ performance_history' = performance_history
           /\ Len(performance_history) = The(outcome.before).performance_records
      /\ (outcome.status = "raised" /\ outcome' = outcome) => calls' = calls
    ]_vars

\* a run aborted by an evaluator answer that did not parse, in its second
\* iteration
C12_Witness ==
  /\ outcome.op = "reflexion_loop"
  /\ outcome.status = "raised"
  /\ outcome.raised = "JSONDecodeError"
  /\ Last(calls).call = "evaluate"
  /\ loop.iteration = 1
  /\ Len(loop.iteration_log) = 1

\* C13: when an external call of a reflexion loop is unavailable or times out,
\* the performance trajectory gains one Performance Record with success = false.
C13_UnavailableRecordsFailure ==
  [][ (outcome.status = "running" /\ outcome'.raised = "ExternalError") =>
         /\ Len(performance_history') = Len(performance_history) + 1
         /\ Last(performance_history').success = FALSE
    ]_vars

-----------------------------------------------------------------------------
(* Unknown task ids *)

\* C14: record_task_attempt with a task id that is not in the catalog raises,
\* on the first such call as on any other, and leaves mastery_levels as it was.
C14_UnknownTaskIdRaises ==
  [][ (last_op'.op = "record_task_attempt" /\ last_op'.arg.task_id \notin CatalogIds) =>
         /\ last_op'.raised # NoError
         /\ mastery_levels' = mastery_levels
    ]_vars

-----------------------------------------------------------------------------
(* The forgetting curve over the whole mid-term tier *)

Evictable(e) == e.retention_strength < RetEvictBelow /\ e.importance < ImpEvictBelow

\* every entry of the tier decayed once, for the time since its last access
DecayedAt(mid, t) == [i \in 1..Len(mid) |-> Decay(mid[i], t - mid[i].last_accessed)]

\* C15: one apply_forgetting_curve decays every mid-term entry once, removes
\* every entry whose decayed retention is below 0.1 and whose importance is
\* below 0.5, and keeps the others in their order.
C15_ForgettingEvictsAllQualifying ==
  [][ (last_op'.op = "apply_forgetting_curve" /\ steps' = steps + 1) =>
         mid_term' = SelectSeq(DecayedAt(mid_term, now), LAMBDA e : ~Evictable(e))
    ]_vars

MemoryOperations ==
  { "add_short_term", "add_episode", "add_reflection", "add_performance_record",
    "retrieve_relevant", "apply_forgetting_curve" }

\* C16: no operation of the memory store fails, apply_forgetting_curve with
\* entries to evict included.
C16_MemoryOperationsNeverFail ==
  last_op.op \in MemoryOperations => last_op.raised = NoError

-----------------------------------------------------------------------------
(* The result and the bound of the reflexion loop *)

\* the earliest iteration of a log with the log's largest score
FirstBest(log) ==
  CHOOSE k \in 1..Len(log) :
    /\ log[k].score = MaxScore(log)
    /\ \A j \in 1..(k - 1) : log[j].score < MaxScore(log)

\* C17: reflexion_loop returns as final_score the largest score of the
\* iterations it ran and as solution the solution of the earliest iteration
\* with that score; a solution is returned whenever an iteration completed.
C17_ReturnsEarliestBest ==
  (outcome.op = "reflexion_loop" /\ outcome.status = "returned") =>
     LET result == The(outcome.result)
     IN  /\ result.final_score = MaxScore(result.iterations)
         /\ result.iterations # <<>> =>
              result.solution = Some(FirstBest(result.iterations))

CallsOf(name) == Cardinality({ i \in 1..Len(calls) : calls[i].call = name })

\* C18 as stated: a run makes at most max_iterations evaluate calls and, when
\* it has returned, its iteration log has between 1 and max_iterations entries.
C18_LogBetweenOneAndMax ==
  (outcome.op = "reflexion_loop" /\ outcome.status # "none") =>
     /\ CallsOf("evaluate") <= loop.max_iterations
     /\ outcome.status = "returned" =>
          /\ 1 <= Len(loop.iteration_log)
          /\ Len(loop.iteration_log) <= loop.max_iterations

RoundsBounded ==
  (outcome.op = "reflexion_loop" /\ outcome.status # "none") =>
     /\ CallsOf("generate") + CallsOf("improve") <= loop.max_iterations
     /\ CallsOf("evaluate") <= loop.max_iterations
     /\ CallsOf("reflect") <= loop.max_iterations
     /\ Len(loop.iteration_log) <= loop.max_iterations
     /\ outcome.status = "returned" =>
          /\ loop.max_iterations >= 1 => Len(loop.iteration_log) >= 1
          /\ loop.max_iterations <= 0 => loop.iteration_log = <<>> /\ calls = <<>>
     /\ outcome.status = "raised" => outcome.result = None

\* C18, amended: provided every external call returns, a run ends, having
\* made at most max_iterations generate-or-improve, evaluate and reflect calls
\* each; a run that returns has logged between 1 and max_iterations iterations
\* when max_iterations >= 1 and none, without any call, when max_iterations is
\* 0; a run ended by an answer that does not parse returns no log.
C18_TerminatesWithinMaxIterations ==
  /\ []RoundsBounded
  /\ (pc # "idle") ~> (pc = "idle")

\* a run that used all three rounds
C18_Witness ==
  /\ outcome.op = "reflexion_loop"
  /\ outcome.status = "returned"
  /\ loop.max_iterations = 3
  /\ Len(loop.iteration_log) = 3
  /\ CallsOf("evaluate") = 3

-----------------------------------------------------------------------------
(* Retrieval *)

\* the entries retrieve_relevant scans, as they are after the call
Scanned == short_term \o mid_term \o reflective

\* C19: retrieve_relevant(query, top_k) returns at most top_k entries, each an
\* entry of the short-term, mid-term or reflective tier that matches the query,
\* in order of non-increasing importance * retention_strength, and no matching
\* entry left out ranks strictly higher than a returned one.
C19_RetrieveTopRanked ==
  last_op.op = "retrieve_relevant" =>
    LET result == last_op.result
        query == last_op.arg.query
        Returned(e) == \E i \in 1..Len(result) : result[i] = e
    IN  /\ Len(result) <= last_op.arg.top_k
        /\ \A i \in 1..Len(result) :
             /\ \E j \in 1..Len(Scanned) : Scanned[j] = result[i]
             /\ Matches(result[i], query)
        /\ \A i \in 1..(Len(result) - 1) : RankKey(result[i]) >= RankKey(result[i + 1])
        /\ \A j \in 1..Len(Scanned) :
             (Matches(Scanned[j], query) /\ ~Returned(Scanned[j])) =>
                \A i \in 1..Len(result) : RankKey(Scanned[j]) <= RankKey(result[i])

\* top_k = 1 and the one entry returned is not the first match of the scan:
\* an earlier match ranks lower and was left out
C19_Witness ==
  /\ last_op.op = "retrieve_relevant"
  /\ last_op.arg.top_k = 1
  /\ Len(last_op.result) = 1
  /\ \E j \in 1..Len(mid_term) :
       /\ Matches(mid_term[j], last_op.arg.query)
       /\ mid_term[j].id < last_op.result[1].id
       /\ RankKey(mid_term[j]) < RankKey(last_op.result[1])

-----------------------------------------------------------------------------
(* The manager's detached background analysis *)

\* _orchestrate_generation returns in this step
ManagerReturns == manager.pc # "idle" /\ manager'.pc = "idle"

\* a background task moves in this step
BackgroundStep == Len(background') = Len(background) /\ background' # background

\* C20: the workflow returns its result without waiting for the background
\* analysis: in the step in which a successful result is returned the analysis
\* task has only been scheduled; and no step of a background task, failing or
\* not, changes the manager's state or the result the caller received.
C20_BackgroundDetached ==
  [][ /\ (ManagerReturns /\ The(manager'.result).success) =>
           /\ Len(background') = Len(background) + 1
           /\ SubSeq(background', 1, Len(background)) = background
           /\ Last(background').status = "scheduled"
      /\ BackgroundStep => manager' = manager
    ]_vars

\* the caller holds a successful result and the analysis made for it has
\* since failed
C20_Witness ==
  /\ manager.pc = "idle"
  /\ manager.result # None
  /\ The(manager.result).success
  /\ background # <<>>
  /\ Last(background).status = "finished"
  /\ Last(background).ended = Some("raised")
  /\ Last(background).description = The(manager.description)

-----------------------------------------------------------------------------
(* Requests on the shared engine *)

\* the engine's state that cycles mutate
engine_state == <<mem_vars, cur_vars, meta_vars, improvement_cycle_count>>

\* C21: each cycle on the shared engine runs to completion before the next
\* begins: no step changes the engine's memory, curriculum, strategy selector
\* or cycle counter while another cycle, started earlier, has not yet ended.
C21_CyclesNeverInterleave ==
  [][ (engine_state' # engine_state /\ parked' # None) =>
         The(parked').outcome.status # "running"
    ]_vars

-----------------------------------------------------------------------------
(* Failures of the analyses' external calls *)

AnalysisFailed(op) == op.op \in {"_causal_analysis", "_counterfactual_analysis"}
                      /\ op.arg.kind # "parsed"

\* C22: a failure of the external call inside the causal analysis, the
\* counterfactual analysis or the domain-similarity update never propagates:
\* after a failed analysis deep_reflection_cycle goes on (to the next analysis
\* or to its return) with the insights it had, nothing is raised, a returned
\* cycle has stored exactly its confident insights, record_learning_outcome
\* called on the event loop completes, and the similarity task leaves
\* domain_similarities as it was and ends without raising.
C22_AnalysisFailuresContained ==
  [][ /\ AnalysisFailed(last_op') =>
           /\ advanced'.insights = advanced.insights
           /\ advanced'.pc \in {"counterfactual", "idle"}
           /\ last_op'.raised = NoError
      /\ (advanced.pc # "idle" /\ advanced'.pc = "idle") =>
           /\ advanced'.result = Some(HighConfidence(advanced'.insights))
           /\ Len(reflective') = Len(reflective) + Len(The(advanced'.result))
           /\ advanced'.meta_learning_cycles = advanced.meta_learning_cycles + 1
      /\ (last_op'.op = "record_learning_outcome" /\ last_op'.arg.running_loop) =>
           /\ last_op'.raised = NoError
           /\ Len(learning_experiences') = Len(learning_experiences) + 1
           /\ domain_similarities' = domain_similarities
      /\ last_op'.op = "_update_domain_similarities" =>
           /\ domain_similarities' = domain_similarities
           /\ last_op'.raised = NoError
           /\ \A i \in 1..Len(background') :
                background'[i].status = "finished" =>
                  The(background'[i].ended) \in {NoError, "AttributeError"}
    ]_vars

\* a similarity task has failed at its call over two domains, and a cycle
\* whose counterfactual call failed has returned what the tactical reflection
\* found
C22_Witness ==
  /\ \E i \in 1..Len(background) : background[i].ended = Some("AttributeError")
  /\ advanced.pc = "idle"
  /\ AnalysisFailed(last_op)
  /\ last_op.op = "_counterfactual_analysis"
  /\ advanced.result # None
  /\ The(advanced.result) # <<>>

-----------------------------------------------------------------------------
(* The adaptive suggestion *)

Suggested == last_op.op = "get_adaptive_task_suggestion"

\* the window the suggestion is decided over, and what it shows
Window == LastN(last_op.arg.recent_performance, 5)

WindowSuccesses == Cardinality({i \in 1..Len(Window) : Window[i].success})

WindowWell == WindowSuccesses * 10 > 8 * Len(Window) /\ QualitySum(Window) > 80 * Len(Window)

WindowPoor == ~WindowWell /\ (\/ WindowSuccesses * 10 < 4 * Len(Window)
                              \/ QualitySum(Window) < 60 * Len(Window))

LevelNow == CurrentDifficultyLevel(mastery_levels, mastery_keys).level

\* the catalog tasks one level below the current level that are not mastered
ReviewCandidates ==
  {i \in 1..Len(Curriculum) : /\ Curriculum[i].difficulty = LevelNow - 1
                              /\ ~is_task_mastered(Curriculum[i].id)}

NormalSuggestion ==
  LET next == NextRecommendedTasks(mastery_levels, 1)
  IN  IF next = <<>> THEN Suggestion("none", "") ELSE Suggestion("next", next[1].id)

\* C23 as stated: over the most recent 5 outcomes, success rate > 0.8 and
\* average quality > 80 give the next task, success rate < 0.4 or average
\* quality < 60 give the review of a not yet mastered task exactly one level
\* below the current level, and anything else gives the normal next task.
C23_AdaptiveSuggestion ==
  (Suggested /\ last_op.arg.recent_performance # <<>> /\ last_op.raised = NoError) =>
     /\ WindowWell => last_op.result = NormalSuggestion
     /\ WindowPoor =>
          /\ last_op.result.kind = "review"
          /\ \E i \in ReviewCandidates : Curriculum[i].id = last_op.result.task
     /\ (~WindowWell /\ ~WindowPoor) => last_op.result = NormalSuggestion

\* C23, amended: the review is suggested only when the current level is above
\* the lowest and some task one level below it is not mastered, and it is the
\* first such task of the catalog; a struggling learner with no such task gets
\* the normal next task, as does every other non-empty history (nothing when
\* no task is available); an empty history gets the first beginner task
\* without prerequisites.
C23_AdaptiveSuggestionOrFallback ==
  (Suggested /\ last_op.raised = NoError) =>
     IF last_op.arg.recent_performance = <<>>
     THEN last_op.result = Suggestion("start", "simple_button")
     ELSE IF WindowPoor /\ LevelNow > 1 /\ ReviewCandidates # {}
          THEN /\ last_op.result.kind = "review"
               /\ \E i \in ReviewCandidates :
                    /\ Curriculum[i].id = last_op.result.task
                    /\ \A j \in ReviewCandidates : i <= j
          ELSE last_op.result = NormalSuggestion

\* a struggling learner who mastered a level-2 task is sent back to basic_form
C23_Witness ==
  /\ Suggested
  /\ last_op.result = Suggestion("review", "basic_form")
  /\ WindowPoor
  /\ LevelNow = 2

-----------------------------------------------------------------------------
(* The trajectory and its trend insights *)

\* the trend-insight reflections of a reflective tier
TrendInsights(tier) == {i \in 1..Len(tier) : tier[i].content.insights # None}

\* C24: every add_performance_record call appends the record; when the
\* trajectory then has at least 5 records the call also stores exactly one
\* trend-insight reflection, of importance 0.95, in the reflective tier, and
\* when it has fewer than 5 it stores none.
C24_TrendInsightFromFiveRecords ==
  [][ performance_history' # performance_history =>
        /\ Len(performance_history') = Len(performance_history) + 1
        /\ SubSeq(performance_history', 1, Len(performance_history)) = performance_history
        /\ IF Len(performance_history') >= TrajectoryMinLen
           THEN /\ Cardinality(TrendInsights(reflective'))
                     = Cardinality(TrendInsights(reflective)) + 1
                /\ Last(reflective').content.insights # None
                /\ Last(reflective').importance = TrendImportance
           ELSE TrendInsights(reflective') = TrendInsights(reflective)
    ]_vars

-----------------------------------------------------------------------------
(* The order of the external calls of one run *)

\* the call a run issues at position i: generate first, then evaluate and
\* reflect, then improve, evaluate, reflect in turn
CallAt(i) ==
  IF i = 1 THEN "generate"
  ELSE IF i % 3 = 1 THEN "improve" ELSE IF i % 3 = 2 THEN "evaluate" ELSE "reflect"

-----------------------------------------------------------------------------
(* What a retrieval changes *)

\* tier after a retrieval with the query: the same entries in the same order,
\* the matching ones accessed once, the others as they were
Retrieved(before, after, query) ==
  /\ Len(after) = Len(before)
  /\ \A i \in 1..Len(before) :
       /\ after[i].id = before[i].id
       /\ after[i].importance = before[i].importance
       /\ after[i].content = before[i].content
       /\ IF \E w \in 1..Len(query) : Contains(before[i].content.words, query[w])
          THEN /\ after[i].access_count = before[i].access_count + 1
               /\ after[i].retention_strength
                    = (IF before[i].retention_strength + 1000 > 10000 THEN 10000
                       ELSE before[i].retention_strength + 1000)
          ELSE after[i] = before[i]

\* C26: retrieve_relevant increments access_count by 1 and raises
\* retention_strength by 0.1, capped at 1.0, for every matching entry, whether
\* or not it is among the top_k returned; it leaves the non-matching entries,
\* the membership of every tier and every entry's importance unchanged.
C26_RetrieveFrame ==
  [][ last_op'.op = "retrieve_relevant" =>
        /\ Retrieved(short_term, short_term', last_op'.arg.query)
        /\ Retrieved(mid_term, mid_term', last_op'.arg.query)
        /\ Retrieved(reflective, reflective', last_op'.arg.query)
        /\ long_term' = long_term
        /\ performance_history' = performance_history
    ]_vars

\* a retrieval returned one entry of many matching ones; a matching entry that
\* was not returned has been accessed a second time and is below the cap
C26_Witness ==
  /\ last_op.op = "retrieve_relevant"
  /\ last_op.arg.top_k = 1
  /\ Len(last_op.result) = 1
  /\ \E i \in 1..Len(mid_term) :
       /\ mid_term[i].id # last_op.result[1].id
       /\ Matches(mid_term[i], last_op.arg.query)
       /\ mid_term[i].access_count = 2
       /\ mid_term[i].retention_strength < 10000

-----------------------------------------------------------------------------
(* The adaptive parameters *)

\* the experiences with the strategy among the last 20 of a log
RecentWith(experiences, strategy) ==
  LET recent == LastN(experiences, 20)
  IN  {i \in 1..Len(recent) : recent[i].strategy_used = strategy}

RecentSuccessesWith(experiences, strategy) ==
  LET recent == LastN(experiences, 20)
  IN  {i \in RecentWith(experiences, strategy) : recent[i].success}

ParametersInRange ==
  /\ adaptive_parameters.exploration_rate >= 1000
  /\ adaptive_parameters.exploration_rate <= 5000
  /\ adaptive_parameters.transfer_threshold >= 5000
  /\ adaptive_parameters.transfer_threshold <= 9000

-----------------------------------------------------------------------------
(* The effectiveness record of the key just recorded *)

Recorded == last_op.op = "record_learning_outcome"

\* the experiences of the log with the strategy and the domain just recorded
MatchingExperiences ==
  RelevantExperiences(learning_experiences, last_op.arg.strategy, last_op.arg.domain)

RecordedKey == <<last_op.arg.strategy, last_op.arg.domain>>

\* C28 as stated: right after record_learning_outcome for (s, d) the record of
\* (s, d) is the recomputation over all matching experiences of the log:
\* sample_size their count, success_rate their fraction of successes, average
\* quality their mean quality.
C28_RecomputedOverAllMatching ==
  Recorded =>
    /\ RecordedKey \in DOMAIN strategy_effectiveness
    /\ LET eff == strategy_effectiveness[RecordedKey]
           n == Len(MatchingExperiences)
       IN  /\ eff.sample_size = n
           /\ eff.success_rate = (Len(Successful(MatchingExperiences)) * 10000) \div n
           /\ eff.avg_quality = (100 * SumQuality(MatchingExperiences)) \div n

\* C28, amended: as above, except that the average quality is the mean quality
\* of the successful matching experiences, and 0 when none of them succeeded;
\* the average time is the mean over all of them.
C28_RecomputedFromScratch ==
  Recorded =>
    /\ RecordedKey \in DOMAIN strategy_effectiveness
    /\ LET eff == strategy_effectiveness[RecordedKey]
           n == Len(MatchingExperiences)
           won == Successful(MatchingExperiences)
       IN  /\ n >= 1
           /\ eff.sample_size = n
           /\ eff.success_rate = (Len(won) * 10000) \div n
           /\ eff.avg_quality = (IF won = <<>> THEN 0
                                 ELSE (100 * SumQuality(won)) \div Len(won))
           /\ eff.avg_time = SumTime(MatchingExperiences) \div n

\* a key recorded over successes and failures of several qualities
C28_Witness ==
  /\ Recorded
  /\ Len(MatchingExperiences) >= 10
  /\ Len(Successful(MatchingExperiences)) < Len(MatchingExperiences)
  /\ strategy_effectiveness[RecordedKey].sample_size >= 10

-----------------------------------------------------------------------------
(* The mastery records against the calls made *)

\* the highest quality_score among the attempts logged for a task
BestLogged(log) ==
  CHOOSE q \in {log[i][2] : i \in 1..Len(log)} : \A i \in 1..Len(log) : log[i][2] <= q

MasteryMatchesCalls ==
  /\ DOMAIN mastery_levels = DOMAIN attempt_log
  /\ \A t \in DOMAIN mastery_levels :
       LET m == mastery_levels[t]
       IN  /\ m.attempts >= 1
           /\ 0 <= m.successes /\ m.successes <= m.attempts
           /\ m.attempts = Len(LogOf(t))
           /\ m.successes = LogSuccesses(LogOf(t))
           /\ m.best_score = BestLogged(LogOf(t))

\* C29: after any sequence of record_task_attempt calls every mastery record
\* has attempts >= 1, 0 <= successes <= attempts, attempts equal to the number
\* of calls made for its id and best_score equal to the highest quality
\* recorded for it; a record once created is never deleted.
C29_MasteryRecordsCountCalls ==
  /\ []MasteryMatchesCalls
  /\ [][DOMAIN mastery_levels \subseteq DOMAIN mastery_levels']_vars

\* a record of several attempts whose best score is not the latest one, next to
\* a record made by a single call
C29_Witness ==
  /\ last_op.op = "record_task_attempt"
  /\ \E t, u \in DOMAIN mastery_levels :
       /\ mastery_levels[t].attempts >= 2
       /\ mastery_levels[t].best_score > Last(LogOf(t))[2]
       /\ mastery_levels[t].successes < mastery_levels[t].attempts
       /\ mastery_levels[u].attempts = 1

-----------------------------------------------------------------------------
(* The range of retention_strength *)

AllEntries == short_term \o mid_term \o reflective

RetentionInRange ==
  \A i \in 1..Len(AllEntries) :
     /\ AllEntries[i].importance \in 0..100
     /\ AllEntries[i].retention_strength >= 0
     /\ AllEntries[i].retention_strength <= 10000

\* C30: for entries created with importance in [0, 1], retention_strength
\* stays within [0, 1] after any sequence of accesses and decays, and an entry
\* starts with retention_strength 1.0.
C30_RetentionWithinUnitInterval ==
  /\ []RetentionInRange
  /\ [][ \A i \in 1..Len(AllEntries') :
            AllEntries'[i].id >= next_id => AllEntries'[i].retention_strength = 10000
       ]_vars

\* after a decay some entry is well below 1.0 while an accessed entry is at 1.0
C30_Witness ==
  /\ last_op.op = "apply_forgetting_curve"
  /\ \E i, j \in 1..Len(AllEntries) :
       /\ AllEntries[i].retention_strength > 0
       /\ AllEntries[i].retention_strength < 5000
       /\ AllEntries[j].access_count >= 1
       /\ AllEntries[j].retention_strength = 10000

-----------------------------------------------------------------------------
(* C31: in every reachable state, also after the full experience log has
   dropped its oldest experiences, the sample_size of every stored
   Strategy-Effectiveness record is the number of experiences in the log with
   the record's (strategy, domain) key *)
C31_SampleSizeMatchesLog ==
  \A k \in DOMAIN strategy_effectiveness :
    strategy_effectiveness[k].sample_size
      = Len(RelevantExperiences(learning_experiences, k[1], k[2]))

-----------------------------------------------------------------------------
(* C32: the retention apply_forgetting_curve leaves in a mid-term entry
   depends only on the time elapsed since the entry's last access, not on how
   often the operation ran: for an entry never accessed since it was stored
   with retention 1.0, an invocation that decays it leaves the retention one
   decay over the whole elapsed time gives *)
C32_RetentionDependsOnElapsedOnly ==
  [][ last_op'.op = "apply_forgetting_curve"
        => \A i \in 1..Len(mid_term'), j \in 1..Len(mid_term) :
             LET e == mid_term'[i]
                 stored == NewEntry(e.id, e.content, e.memory_type, e.importance, e.timestamp)
             IN  ( /\ e.id = mid_term[j].id
                   /\ e.retention_strength # mid_term[j].retention_strength
                   /\ e.access_count = 0 )
                   => e.retention_strength
                        = Decay(stored, now' - e.last_accessed).retention_strength
    ]_vars

-----------------------------------------------------------------------------
(* C33: every task id recorded by the controller is a catalog task id: in
   every reachable state each key of mastery_levels is in the curriculum
   catalog, and no tracker operation fails looking a recorded task up *)
C33_MasteryKeysInCatalog ==
  /\ DOMAIN mastery_levels \subseteq CatalogIds
  /\ last_op.raised # "KeyError"

-----------------------------------------------------------------------------
(* C34: for every Performance Record reflexion_loop appends, the quality
   score its readers take from it, r.get('quality_score', 0), is the best
   score of the run, which the record carries as final_score *)
QualityRead(r) == IF r.quality_score = None THEN 0 ELSE The(r.quality_score)

C34_ReadersSeeBestScore ==
  [][ performance_history' # performance_history
        => /\ Last(performance_history').final_score = Some(loop.best_score')
           /\ QualityRead(Last(performance_history')) = loop.best_score'
    ]_vars

-----------------------------------------------------------------------------
(* The episodes of a run *)

\* the positions in mid_term' of the entries stored by the step
StoredEpisodes ==
  { i \in 1..Len(mid_term') : \A j \in 1..Len(mid_term) : mid_term[j].id # mid_term'[i].id }

\* the step completes an iteration: its entry is appended to the iteration log
IterationCompleted ==
  /\ pc = "reflect"
  /\ loop' # None
  /\ Len(loop.iteration_log') = Len(loop.iteration_log) + 1

\* C35: no step of a reflexion_loop run changes a long-term list; a step that
\* completes an iteration stores exactly one episode, of importance 0.8 when
\* the iteration's score is at least 80 and 0.6 otherwise, neither above the
\* consolidation threshold, and no other step stores an episode.
C35_RunLeavesLongTermAlone ==
  [][ /\ long_term' = long_term
      /\ IF IterationCompleted
         THEN /\ Cardinality(StoredEpisodes) = 1
              /\ \A i \in StoredEpisodes :
                   /\ i = Len(mid_term')
                   /\ mid_term'[i].memory_type = "episode"
                   /\ mid_term'[i].importance
                        = (IF Last(loop.iteration_log').score >= 80 THEN 80 ELSE 60)
                   /\ mid_term'[i].importance <= ConsolidateThreshold
         ELSE StoredEpisodes = {}
    ]_vars

\* a run of two iterations, the first below 80 and the second at or above it,
\* has returned; the memory holds their two episodes and no long-term pattern
C35_Witness ==
  /\ outcome.op = "reflexion_loop"
  /\ outcome.status = "returned"
  /\ Len(LogNow) = 2
  /\ LogNow[1].score < 80
  /\ LogNow[2].score >= 80
  /\ Len(mid_term) = 2
  /\ mid_term[1].importance = 60
  /\ mid_term[2].importance = 80
  /\ long_term = EmptyLongTerm

-----------------------------------------------------------------------------
(* Mastery over time *)

\* the step is a record_task_attempt call; its arguments are in last_op'
AttemptRecorded == attempt_log' # attempt_log

\* C36 as stated: once is_task_mastered(t) is true it stays true after every
\* later record_task_attempt call, on t or on another task, whatever the
\* outcome recorded.
C36_MasteryNeverLost ==
  [][ AttemptRecorded
        => \A u \in AllTaskIds :
             IsMastered(mastery_levels, u) => IsMastered(mastery_levels', u)
    ]_vars

\* C36 as the code has it: a mastered task stays mastered after a
\* record_task_attempt call on another task, and after a call on the task
\* itself that records a success with a quality of at least 75; mastery is
\* recomputed from the task's own record on every attempt on it.
C36_MasteryKeptUnlessOwnAttemptFalls ==
  [][ AttemptRecorded
        => \A u \in AllTaskIds :
             LET a == last_op'.arg
             IN  ( /\ IsMastered(mastery_levels, u)
                   /\ \/ u # a.task_id
                      \/ a.success /\ a.quality_score >= MasteryMinAverage )
                   => IsMastered(mastery_levels', u)
    ]_vars

\* a failed attempt on the mastered simple_button (three successes in four
\* attempts) has taken its mastery away and left basic_form mastered
C36_Witness ==
  /\ last_op.op = "record_task_attempt"
  /\ last_op.arg.task_id = "simple_button"
  /\ last_op.arg.success = FALSE
  /\ mastery_levels["simple_button"].attempts = MasteryMinAttempts + 1
  /\ mastery_levels["simple_button"].successes = MasteryMinAttempts
  /\ ~IsMastered(mastery_levels, "simple_button")
  /\ IsMastered(mastery_levels, "basic_form")

-----------------------------------------------------------------------------
(* C37: in every reachable state the mastery_achieved flag of every mastery
   record equals is_task_mastered of its task, so the operations that read the
   flag agree with those that call is_task_mastered *)
C37_FlagMatchesIsTaskMastered ==
  \A k \in DOMAIN mastery_levels :
    mastery_levels[k].mastery_achieved = is_task_mastered(k)

\* a fourth, failed attempt on simple_button has cleared its flag, while
\* another record still carries a set flag
C37_Witness ==
  /\ last_op.op = "record_task_attempt"
  /\ "simple_button" \in DOMAIN mastery_levels
  /\ mastery_levels["simple_button"].attempts > MasteryMinAttempts
  /\ mastery_levels["simple_button"].best_score = 100
  /\ ~mastery_levels["simple_button"].mastery_achieved
  /\ \E k \in DOMAIN mastery_levels : mastery_levels[k].mastery_achieved

-----------------------------------------------------------------------------
(* C38: recording a successful outcome of quality 100 for a (strategy, domain)
   pair never lowers the base score the Strategy Selector computes for the
   strategy in the domain; in particular a strategy tried once, with a perfect
   result, does not score below the neutral 0.5 of a strategy never tried *)
C38_PerfectOutcomeNeverLowersScore ==
  [][ ( /\ learning_experiences' # learning_experiences
        /\ last_op'.op = "record_learning_outcome"
        /\ last_op'.arg.success
        /\ last_op'.arg.quality = 100 )
        => BaseScore(strategy_effectiveness', last_op'.arg.strategy, last_op'.arg.domain)
             >= BaseScore(strategy_effectiveness, last_op'.arg.strategy, last_op'.arg.domain)
    ]_vars

-----------------------------------------------------------------------------
(* Progress through the curriculum *)
AllMastered == \A id \in CatalogIds : is_task_mastered(id)

PrerequisitesFirst ==
  \A i \in 1..Len(Curriculum) :
    is_task_mastered(Curriculum[i].id)
      => \A j \in 1..Len(Curriculum[i].prerequisites) :
           is_task_mastered(Curriculum[i].prerequisites[j])

=============================================================================
